---- MODULE Spec2Model ----
(***************************************************************************)
(* Quote ingestion service (Pizarras Granos API).                          *)
(*                                                                         *)
(* The repository holds two generations of the same service:               *)
(*   v16  src/app/main_backup16102025OKDef9.py  -- cotizaciones: a        *)
(*        per-(plaza, only_base) cache with a fresh TTL, an in-memory      *)
(*        scheduler, and the MERGE-based Oracle export;                    *)
(*   v01  src/app/main_backup01102025.py        -- api_cotizaciones:      *)
(*        always scrapes, and falls back to a per-plaza cache bounded by   *)
(*        max_age_min when the scrape fails.                               *)
(* Both are modelled; the variable "variant" says which one is running.    *)
(*                                                                         *)
(* Conventions.  Python None is the empty tuple and a present value v is   *)
(* <<v>>.  A product name is the sequence of its blank-separated words.    *)
(* Times are whole seconds.  A dict is a record; a missing key is a        *)
(* missing field.                                                          *)
(***************************************************************************)
EXTENDS Integers, Sequences, FiniteSets, TLC

VARIABLES
    variant,      \* "v01" | "v16": the generation of the service that runs
    now,          \* the clock, in seconds
    _CACHE,       \* v16: cache key -> None | <<(ts, data)>>
    _SCHEDULERS,  \* v16: plaza -> None | <<chain whose timer is registered>>
    chains,       \* v16: the schedules started, their run and their timer
    CACHE,        \* v01: plaza -> [items, fetched_at]
    thr,          \* request threads: position in the handler and its locals
    last,         \* the call that returned in the latest step, and its response
    lastSet,      \* history: the (time, list) of the latest set per cache key
    TB_REF,       \* v16: the committed rows of the store table TB_REF
    GRANO,        \* v16: the codes of the store's reference table GRANO
    today,        \* the date of the clock, as the number YYYYMMDD
    exports       \* history: the latest two returns of export_oracle

\* The store and the date, which only the export and the calendar touch.
dbvars == <<TB_REF, GRANO, today>>

None == <<>>
Some(v) == <<v>>

SOURCE_URL == "https://www.bolsadecereales.com/camara-arbitral"

\* ------------------------------------------------------------------ bounds
\* The clock advances at most MaxTicks times.
MaxTicks == 3

\* ------------------------------------------------------------ quote items
Item(producto, precio, moneda) ==
    [producto |-> producto, precio |-> precio, moneda |-> moneda,
     anterior |-> "s/c", variacion |-> "s/c"]

\* Upper-casing of the words that occur in the modelled documents.
Upper(w) ==
    CASE w = "may" -> "MAY"
      [] w = "Rosafe" -> "ROSAFE"
      [] w = "Trigo" -> "TRIGO"
      [] w = "Soja" -> "SOJA"
      [] w = "Maiz" -> "MAIZ"
      [] w = "Cebada" -> "CEBADA"
      [] w = "Forrajera" -> "FORRAJERA"
      [] w = "Art" -> "ART"
      [] w = "Sorgo" -> "SORGO"
      [] OTHER -> w

MonthWords == {"ENE", "FEB", "MAR", "ABR", "MAY", "JUN", "JUL", "AGO", "SEP",
               "OCT", "NOV", "DIC"}

\* Words of the documents that match \d{2}/\d{4} between word boundaries.
DateWords == {"05/2026"}

\* Upper-cased words of the documents that contain ROS, BAHIA, CHICAGO,
\* MATBA or CBOT as a substring.
ExchangeWords == {"ROS", "ROSAFE", "BAHIA", "CHICAGO", "MATBA", "CBOT"}

_looks_like_future(name) ==
    IF name = <<>> THEN FALSE
    ELSE \E i \in 1..Len(name) :
            \/ Upper(name[i]) \in MonthWords
            \/ name[i] \in DateWords
            \/ Upper(name[i]) \in ExchangeWords

\* [it for it in items if not _looks_like_future(it.get("producto", ""))]
DropFutures(items) ==
    LET NotFuture(it) == ~_looks_like_future(it.producto)
    IN SelectSeq(items, NotFuture)

\* --------------------------------------------------------- v16: the plaza
\* plaza strings the requests carry, with (p or "").strip().lower() and the
\* accent-stripped form of each.
PlazaInputs == {"rosario", "xx"}

Lower(p) ==
    CASE p = " Locales " -> "locales"
      [] p = "Bahía Blanca" -> "bahía blanca"
      [] OTHER -> p

_strip_accents(s) ==
    CASE s = "bahía blanca" -> "bahia blanca"
      [] OTHER -> s

normalize_plaza(p) ==
    LET p_in == Lower(p)
        p_na == _strip_accents(p_in)
    IN  CASE p_in \in {"rosario", "ros", "ros-spot"} -> "rosario"
          [] p_na \in {"bahia", "bahia blanca", "bbca", "bb", "bahia-blanca",
                       "bahia_blanca"} -> "bahia"
          [] p_na \in {"cordoba", "cba", "cor", "cb"} -> "cordoba"
          [] p_na \in {"quequen", "qqn", "que"} -> "quequen"
          [] p_na \in {"darsena", "dar"} -> "darsena"
          [] p_na \in {"locales", "local", "loc", "mercado local",
                       "mercadolocal"} -> "locales"
          [] OTHER -> "rosario"

Plazas16 == {normalize_plaza(p) : p \in PlazaInputs}

\* ----------------------------------------------------- v16: the documents
\* What scrape_plaza parses out of each published document, per plaza
\* (after _parse_table's renaming), keyed by the plaza of each heading the
\* document has.  Document 3 has lost the Rosario heading.
Docs16 ==
    << [rosario |-> << Item(<<"Trigo">>, Some(200000), "ARS"),
                       Item(<<"Soja", "may">>, Some(300), "USD") >>],
       [rosario |-> << Item(<<"Trigo">>, Some(210000), "ARS"),
                       Item(<<"Soja", "Rosafe">>, Some(310), "USD") >>],
       [bahia   |-> << Item(<<"Trigo">>, Some(190000), "ARS") >>],
       [rosario |-> << Item(<<"Trigo">>, Some(200000), "ARS"),
                       Item(<<"Trigo", "Art", "12">>, Some(200000), "ARS"),
                       Item(<<"Cebada">>, Some(150), "ARS"),
                       Item(<<"Soja">>, None, "USD"),
                       Item(<<"Sorgo">>, Some(180), "USD"),
                       Item(<<"Maiz">>, Some(0), "ARS") >>],
       [rosario |-> << Item(<<"Trigo">>, Some(205000), "ARS"),
                       Item(<<"Soja">>, Some(300), "USD") >>],
       [rosario |-> << Item(<<"Soja">>, None, "USD"),
                       Item(<<"Maiz">>, Some(0), "ARS") >>] >>

\* The documents the query and scheduler runs draw from, and those the
\* export runs draw from.
DocIds16 == {1, 2, 3}

ExportDocIds == {4, 5, 6}

\* How a fetch of the source ends: with the document the page publishes at
\* that moment, with requests.Timeout, with an HTTPError, or with any other
\* exception of the fetch or of the parse.
FetchOutcomes == {"ok", "timeout", "http", "other"}

ErrorText(outcome) ==
    CASE outcome = "timeout" -> "timeout"
      [] outcome = "http" -> "HTTPError: 500 Server Error"
      [] OTHER -> "RuntimeError: parse"

\* _find_plaza_tables: the tables under the heading of the plaza, none when
\* no heading of the document matches.
_find_plaza_tables(doc, plaza_norm) ==
    IF plaza_norm \in DOMAIN Docs16[doc] THEN << Docs16[doc][plaza_norm] >>
    ELSE << >>

\* Variant that swallows a failed fetch and reports an empty list.
scrape_plaza_swallow(plaza_norm, outcome, doc) ==
    IF plaza_norm \notin {"locales"} /\ outcome = "ok"
          /\ _find_plaza_tables(doc, plaza_norm) # <<>>
    THEN [ok |-> TRUE, found |-> TRUE, items |-> _find_plaza_tables(doc, plaza_norm)[1]]
    ELSE [ok |-> TRUE, found |-> FALSE, items |-> <<>>]

\* Variant that raises when the heading of the plaza is missing.
scrape_plaza_heading_required(plaza_norm, outcome, doc) ==
    IF plaza_norm = "locales" THEN [ok |-> TRUE, found |-> FALSE, items |-> <<>>]
    ELSE IF outcome = "ok"
         THEN IF _find_plaza_tables(doc, plaza_norm) = <<>>
              THEN [ok |-> FALSE, exc |-> "other"]
              ELSE [ok |-> TRUE, found |-> TRUE,
                    items |-> _find_plaza_tables(doc, plaza_norm)[1]]
         ELSE [ok |-> FALSE, exc |-> outcome]

\* scrape_plaza: [ok, found, items] or [ok |-> FALSE, exc]; "locales" never
\* fetches, and a plaza without tables gives the empty list.
scrape_plaza(plaza_norm, outcome, doc) ==
    IF plaza_norm = "locales" THEN [ok |-> TRUE, found |-> FALSE, items |-> <<>>]
    ELSE IF outcome = "ok"
         THEN LET tables == _find_plaza_tables(doc, plaza_norm)
              IN  IF tables = <<>>
                  THEN [ok |-> TRUE, found |-> FALSE, items |-> <<>>]
                  ELSE [ok |-> TRUE, found |-> TRUE, items |-> tables[1]]
         ELSE [ok |-> FALSE, exc |-> outcome]

\* -------------------------------------------------------- v16: the cache
_CACHE_TTL == 120

OnlyBaseInputs == {0, 1, 2}

\* f"{plaza_norm}|ob={int(only_base==1)}"
cache_key(plaza_norm, only_base) == <<plaza_norm, IF only_base = 1 THEN 1 ELSE 0>>

Keys16 == Plazas16 \X {0, 1}

_cache_get(cache, key, t) ==
    LET pack == cache[key]
    IN  IF pack = None THEN None
        ELSE LET ts == pack[1][1]
                 data == pack[1][2]
             IN  IF t - ts < _CACHE_TTL THEN Some(data) ELSE None

\* Variant that extends the stored list instead of replacing the entry.
_cache_set_extend(cache, key, t, data) ==
    [cache EXCEPT ![key] =
        Some(<<t, IF cache[key] = None THEN data ELSE cache[key][1][2] \o data>>)]

\* Variant that stores the timestamp and the list separately: the new
\* timestamp is in place while the list is still the previous one.
_cache_set_torn(cache, key, t, data) ==
    [cache EXCEPT ![key] =
        Some(<<t, IF cache[key] = None THEN data ELSE cache[key][1][2]>>)]

\* _CACHE[key] = (time.time(), data)
_cache_set(cache, key, t, data) == [cache EXCEPT ![key] = Some(<<t, data>>)]


\* ------------------------------------------- v16: the export, pure parts
_GRAIN_MAP(producto) ==
    CASE producto = <<"Trigo">> -> 10
      [] producto = <<"Trigo", "Art", "12">> -> 10
      [] producto = <<"Maiz">> -> 200
      [] producto = <<"Soja">> -> 210
      [] producto = <<"Sorgo">> -> 220
      [] producto = <<"Girasol">> -> 230
      [] OTHER -> 0

_PIZARRA_MAP(plaza_norm) ==
    CASE plaza_norm = "rosario" -> "ROS"
      [] plaza_norm = "bahia" -> "BHI"
      [] plaza_norm = "cordoba" -> "CBA"
      [] plaza_norm = "quequen" -> "QQN"
      [] plaza_norm = "darsena" -> "DAR"
      [] plaza_norm = "locales" -> "LOC"
      [] OTHER -> "UNK"

siglo == 21

cosecha == "0"

\* Variant that keeps every row with a price, zero included.
ExportableRows_any_price(items) ==
    LET Priced(it) == it.precio # None
    IN  SelectSeq(items, Priced)

\* rows = [it for it in items if isinstance(it.get("precio"), (int, float))
\*         and (it.get("precio") or 0) > 0]
ExportableRows(items) ==
    LET Priced(it) == it.precio # None /\ it.precio[1] > 0
    IN  SelectSeq(items, Priced)

\* round(float(precio), 2): the prices of the documents are whole numbers,
\* which it leaves as they are.
round2(precio) == precio

\* The text that _uvalue16 hashes; "x or ''" turns None and 0 into "".  The
\* 64-bit hash, reduced modulo 10^16, is taken to tell apart the texts of a
\* run, so the text stands for the number.
_uvalue16(grano, siglo_, cosecha_, pizarra, fechavig, mes, ejercicio, precioref) ==
    << grano, siglo_, cosecha_, pizarra, fechavig,
       IF mes = None THEN "" ELSE mes[1],
       IF ejercicio = None \/ ejercicio = Some(0) THEN "" ELSE ejercicio[1],
       <<precioref, "00">> >>

\* Variant of the look-up that finds every code.
_grain_exists_any(grano_table, grano_code) == TRUE

\* SELECT 1 FROM GRANO WHERE GRANO = :g AND ROWNUM = 1
_grain_exists(grano_table, grano_code) == grano_code \in grano_table

\* Variant of the statement that inserts without matching on UVALUE.
MERGE_insert(table, row) == [inserted |-> {row}, rowcount |-> 1]

\* MERGE INTO TB_REF t USING (...) s ON (t.UVALUE = s.uvalue)
\* WHEN NOT MATCHED THEN INSERT ...: the rows to add and the rowcount.
MERGE(table, row) ==
    IF \E r \in table : r.UVALUE = row.UVALUE
    THEN [inserted |-> {}, rowcount |-> 0]
    ELSE [inserted |-> {row}, rowcount |-> 1]

\* The codes of the reference table GRANO; 220 (Sorgo) has no row in it.
GranoCodes == {10, 200, 210, 230}

\* int(datetime.now().strftime("%Y%m%d")) on the days of a run.
Days == <<20261030, 20261031>>

\* The latest two returns of the export, oldest first.
Latest2(hist, ret) ==
    IF Len(hist) < 2 THEN Append(hist, ret) ELSE <<hist[2], ret>>

\* ------------------------------------------------ v16: GET /api/cotizaciones
RequestThreads == {"r1", "r2"}

Idle == [pc |-> "idle"]

\* No call returned in the latest step.
NoReturn == [op |-> "none"]

\* Variant of the except clauses that leaves the error field out.
cotizaciones_except_silent(plaza_norm, exc) ==
    [raised |-> FALSE,
     resp |-> [items |-> <<>>, plaza |-> plaza_norm, source_url |-> SOURCE_URL]]

\* Variant with the requests.Timeout clause only: any other exception leaves
\* the handler.
cotizaciones_except_timeout_only(plaza_norm, exc) ==
    IF exc = "timeout"
    THEN [raised |-> FALSE,
          resp |-> [items |-> <<>>, plaza |-> plaza_norm,
                    source_url |-> SOURCE_URL, error |-> "timeout"]]
    ELSE [raised |-> TRUE, resp |-> <<>>]

\* The two except clauses of cotizaciones: requests.Timeout, then Exception.
cotizaciones_except(plaza_norm, exc) ==
    IF exc = "timeout"
    THEN [raised |-> FALSE,
          resp |-> [items |-> <<>>, plaza |-> plaza_norm,
                    source_url |-> SOURCE_URL, error |-> "timeout"]]
    ELSE [raised |-> FALSE,
          resp |-> [items |-> <<>>, plaza |-> plaza_norm,
                    source_url |-> SOURCE_URL, error |-> ErrorText(exc)]]

\* What the caller of cotizaciones does with the response.  The HTTP layer
\* sends it.  export_oracle takes the items that carry a positive price and
\* answers 400 when none is left; otherwise it reads the date and goes on to
\* connect to the store.
cotizaciones_return(t, caller, rec) ==
    IF caller = "http"
    THEN /\ thr' = [thr EXCEPT ![t] = Idle]
         /\ last' = rec
         /\ UNCHANGED exports
    ELSE LET rows == ExportableRows(rec.resp.items)
         IN  IF rows = <<>>
             THEN LET ret == [op |-> "export_oracle", status |-> 400,
                              plaza |-> rec.plaza,
                              items |-> rec.resp.items, rows |-> rows,
                              fechavig |-> today, before |-> TB_REF,
                              after |-> TB_REF,
                              resp |-> [ok |-> FALSE, error |-> "sin_datos"]]
                  IN  /\ thr' = [thr EXCEPT ![t] = Idle]
                      /\ last' = ret
                      /\ exports' = Latest2(exports, ret)
             ELSE /\ thr' = [thr EXCEPT ![t] =
                              [pc |-> "connect", op |-> "export_oracle",
                               plaza |-> rec.plaza,
                               items |-> rec.resp.items, rows |-> rows,
                               pizarra |-> _PIZARRA_MAP(rec.plaza),
                               fechavig |-> today]]
                  /\ last' = NoReturn
                  /\ UNCHANGED exports

\* cotizaciones up to its first return: the cache is read once; on a hit the
\* response is returned without a scrape.
cotizaciones_begin(t, caller, plaza, only_base) ==
    LET plaza_norm == normalize_plaza(plaza)
        key == cache_key(plaza_norm, only_base)
        cached == _cache_get(_CACHE, key, now)
    IN  IF cached # None
        THEN cotizaciones_return(t, caller,
                 [op |-> "cotizaciones", step |-> "hit",
                  plaza |-> plaza_norm, only_base |-> only_base,
                  pre |-> _CACHE[key], at |-> now, raised |-> FALSE,
                  resp |-> [items |-> cached[1], plaza |-> plaza_norm,
                            source_url |-> SOURCE_URL, cached |-> TRUE]])
        ELSE /\ thr' = [thr EXCEPT ![t] =
                         [pc |-> "scrape", op |-> "cotizaciones",
                          caller |-> caller,
                          plaza |-> plaza_norm, only_base |-> only_base]]
             /\ last' = NoReturn
             /\ UNCHANGED exports

\* GET /api/cotizaciones
cotizaciones_call(t, plaza, only_base) ==
    /\ variant = "v16"
    /\ thr[t].pc = "idle"
    /\ cotizaciones_begin(t, "http", plaza, only_base)
    /\ UNCHANGED <<variant, now, _CACHE, _SCHEDULERS, chains, CACHE, lastSet>>
    /\ UNCHANGED dbvars

\* items = scrape_plaza(plaza_norm), the only_base filter, or the except clause.
cotizaciones_scrape(t, outcome, doc) ==
    /\ thr[t].pc = "scrape"
    /\ thr[t].op = "cotizaciones"
    /\ thr[t].plaza = "locales" => outcome = "ok"
    /\ LET me == thr[t]
           r == scrape_plaza(me.plaza, outcome, doc)
       IN  IF r.ok
           THEN /\ thr' = [thr EXCEPT ![t] =
                            [pc |-> "set", op |-> "cotizaciones",
                             caller |-> me.caller,
                             plaza |-> me.plaza, only_base |-> me.only_base,
                             fetch |-> outcome, found |-> r.found,
                             items |-> IF me.only_base = 1
                                       THEN DropFutures(r.items) ELSE r.items]]
                /\ last' = NoReturn
                /\ UNCHANGED exports
           ELSE cotizaciones_return(t, me.caller,
                    [op |-> "cotizaciones", step |-> "fail",
                     plaza |-> me.plaza, only_base |-> me.only_base,
                     pre |-> _CACHE[cache_key(me.plaza, me.only_base)],
                     at |-> now, fetch |-> outcome]
                    @@ cotizaciones_except(me.plaza, r.exc))
    /\ UNCHANGED <<variant, now, _CACHE, _SCHEDULERS, chains, CACHE, lastSet>>
    /\ UNCHANGED dbvars

\* _cache_set(cache_key, items) and the return of the fresh list.
cotizaciones_set(t) ==
    /\ thr[t].pc = "set"
    /\ thr[t].op = "cotizaciones"
    /\ LET me == thr[t]
           key == cache_key(me.plaza, me.only_base)
       IN  /\ _CACHE' = _cache_set(_CACHE, key, now, me.items)
           /\ lastSet' = [lastSet EXCEPT ![key] = Some(<<now, me.items>>)]
           /\ cotizaciones_return(t, me.caller,
                  [op |-> "cotizaciones", step |-> "fresh",
                   plaza |-> me.plaza, only_base |-> me.only_base,
                   pre |-> _CACHE[key], at |-> now, raised |-> FALSE,
                   fetch |-> me.fetch, found |-> me.found,
                   resp |-> [items |-> me.items, plaza |-> me.plaza,
                             source_url |-> SOURCE_URL, cached |-> FALSE]])
    /\ UNCHANGED <<variant, now, _SCHEDULERS, chains, CACHE>>
    /\ UNCHANGED dbvars

\* ------------------------------------------ v16: POST /api/export/oracle
\* plaza_norm, _ = normalize_plaza(plaza); payload = cotizaciones(plaza_norm,
\* only_base), called as a plain function in the request thread.
export_oracle_call(t, plaza, only_base) ==
    /\ variant = "v16"
    /\ thr[t].pc = "idle"
    /\ cotizaciones_begin(t, "export_oracle", normalize_plaza(plaza), only_base)
    /\ UNCHANGED <<variant, now, _CACHE, _SCHEDULERS, chains, CACHE, lastSet>>
    /\ UNCHANGED dbvars

\* Variant for a connection that commits each statement as it runs: what
\* the call added before the error stays in the store.
export_oracle_except_autocommit(t, cause) ==
    LET me == thr[t]
        done == IF "pending" \in DOMAIN me THEN me.pending ELSE {}
        ret == [op |-> "export_oracle", status |-> 500, plaza |-> me.plaza,
                items |-> me.items, rows |-> me.rows,
                fechavig |-> me.fechavig, uncommitted |-> done,
                before |-> TB_REF, after |-> TB_REF \cup done,
                resp |-> [ok |-> FALSE, error |-> cause]]
    IN  /\ thr' = [thr EXCEPT ![t] = Idle]
        /\ last' = ret
        /\ exports' = Latest2(exports, ret)
        /\ TB_REF' = TB_REF \cup done

\* The except clause and the finally clause of export_oracle: the response
\* carries the cause, and closing the connection drops what was not
\* committed.
export_oracle_except(t, cause) ==
    LET me == thr[t]
        ret == [op |-> "export_oracle", status |-> 500, plaza |-> me.plaza,
                items |-> me.items, rows |-> me.rows,
                fechavig |-> me.fechavig,
                uncommitted |-> IF "pending" \in DOMAIN me THEN me.pending
                                ELSE {},
                before |-> TB_REF, after |-> TB_REF,
                resp |-> [ok |-> FALSE, error |-> cause]]
    IN  /\ thr' = [thr EXCEPT ![t] = Idle]
        /\ last' = ret
        /\ exports' = Latest2(exports, ret)
        /\ UNCHANGED TB_REF

\* conn = _oracle_connect(); cur = conn.cursor()
export_oracle_connect(t, db) ==
    /\ thr[t].pc = "connect"
    /\ IF db = "ok"
       THEN /\ thr' = [thr EXCEPT ![t] =
                         [pc |-> "rows", op |-> "export_oracle",
                          plaza |-> thr[t].plaza,
                          items |-> thr[t].items, rows |-> thr[t].rows,
                          pizarra |-> thr[t].pizarra,
                          fechavig |-> thr[t].fechavig,
                          i |-> 1, inserted |-> 0, skipped |-> 0,
                          already_present |-> 0, pending |-> {}]]
            /\ last' = NoReturn
            /\ UNCHANGED <<TB_REF, exports>>
       ELSE export_oracle_except(t, "DatabaseError: DPY-6005: cannot connect")
    /\ UNCHANGED <<variant, now, _CACHE, _SCHEDULERS, chains, CACHE, lastSet>>
    /\ UNCHANGED <<GRANO, today>>

\* The row of TB_REF that export_oracle builds for a quote.
export_oracle_values(me, it) ==
    LET grano == _GRAIN_MAP(it.producto)
        precioref == round2(it.precio[1])
    IN  [GRANO |-> grano, SIGLO |-> siglo, COSECHA |-> cosecha,
         PIZARRA |-> me.pizarra, FECHAVIG |-> me.fechavig,
         MES |-> None, EJERCICIO |-> None, PRECIOREF |-> precioref,
         UVALUE |-> _uvalue16(grano, siglo, cosecha, me.pizarra, me.fechavig,
                              None, None, precioref)]

\* The head of one turn of "for it in rows": the product's code and, for a
\* product that has one, the look-up in GRANO.  A product without a code is
\* skipped without asking the store.
export_oracle_row(t, db) ==
    /\ thr[t].pc = "rows"
    /\ thr[t].i <= Len(thr[t].rows)
    /\ LET me == thr[t]
           grano == _GRAIN_MAP(me.rows[me.i].producto)
       IN  IF grano = 0
           THEN /\ db = "ok"
                /\ thr' = [thr EXCEPT ![t].i = me.i + 1,
                                      ![t].skipped = me.skipped + 1]
                /\ last' = NoReturn
                /\ UNCHANGED <<TB_REF, exports>>
           ELSE IF db # "ok"
           THEN export_oracle_except(t, "DatabaseError: ORA-03113")
           ELSE IF ~_grain_exists(GRANO, grano)
           THEN /\ thr' = [thr EXCEPT ![t].i = me.i + 1,
                                      ![t].skipped = me.skipped + 1]
                /\ last' = NoReturn
                /\ UNCHANGED <<TB_REF, exports>>
           ELSE /\ thr' = [thr EXCEPT ![t].pc = "merge"]
                /\ last' = NoReturn
                /\ UNCHANGED <<TB_REF, exports>>
    /\ UNCHANGED <<variant, now, _CACHE, _SCHEDULERS, chains, CACHE, lastSet>>
    /\ UNCHANGED <<GRANO, today>>

\* The rest of the turn: the MERGE and the counters.  The statement reads
\* TB_REF when it runs; the uncommitted rows are visible to the statements
\* of the same connection.
export_oracle_merge(t, db) ==
    /\ thr[t].pc = "merge"
    /\ LET me == thr[t]
           m == MERGE(TB_REF \cup me.pending,
                      export_oracle_values(me, me.rows[me.i]))
       IN  IF db # "ok"
           THEN export_oracle_except(t, "DatabaseError: ORA-03113")
           ELSE /\ thr' = [thr EXCEPT
                             ![t].pc = "rows",
                             ![t].i = me.i + 1,
                             ![t].pending = me.pending \cup m.inserted,
                             ![t].inserted = me.inserted + m.rowcount,
                             ![t].already_present =
                                 me.already_present + (1 - m.rowcount)]
                /\ last' = NoReturn
                /\ UNCHANGED <<TB_REF, exports>>
    /\ UNCHANGED <<variant, now, _CACHE, _SCHEDULERS, chains, CACHE, lastSet>>
    /\ UNCHANGED <<GRANO, today>>

\* conn.commit() and the return of the counters.
export_oracle_commit(t, db) ==
    /\ thr[t].pc = "rows"
    /\ thr[t].i > Len(thr[t].rows)
    /\ LET me == thr[t]
       IN  IF db = "ok"
           THEN LET ret == [op |-> "export_oracle", status |-> 200,
                            plaza |-> me.plaza,
                            items |-> me.items, rows |-> me.rows,
                            fechavig |-> me.fechavig, before |-> TB_REF,
                            after |-> TB_REF \cup me.pending,
                            resp |-> [ok |-> TRUE, exported |-> me.inserted,
                                      already |-> me.already_present,
                                      skipped |-> me.skipped,
                                      plaza |-> me.plaza]]
                IN  /\ TB_REF' = TB_REF \cup me.pending
                    /\ thr' = [thr EXCEPT ![t] = Idle]
                    /\ last' = ret
                    /\ exports' = Latest2(exports, ret)
           ELSE export_oracle_except(t, "DatabaseError: ORA-03114")
    /\ UNCHANGED <<variant, now, _CACHE, _SCHEDULERS, chains, CACHE, lastSet>>
    /\ UNCHANGED <<GRANO, today>>

\* ------------------------------------------------------ v16: the scheduler
\* A chain is one POST /api/start and the runs of _schedule_job that follow
\* from it: the run made by the request itself, then one run per timer.
ChainIds == {"c1", "c2"}

IntervalInputs == {1, 2}

Unused == [pc |-> "unused"]

HasUnusedChain == \E c \in ChainIds : chains[c].pc = "unused"

NewChain == IF chains["c1"].pc = "unused" THEN "c1" ELSE "c2"

\* POST /api/start: cancel the registered timer, then run _schedule_job in
\* the request thread.  Timer.cancel() stops a timer that has not fired yet
\* and does nothing to one that has.
start_automation(plaza, interval_min) ==
    /\ variant = "v16"
    /\ HasUnusedChain
    /\ LET plaza_norm == normalize_plaza(plaza)
           t_prev == _SCHEDULERS[plaza_norm]
           cancelled == IF t_prev # None /\ chains[t_prev[1]].pc = "armed"
                        THEN [chains EXCEPT ![t_prev[1]] = [pc |-> "cancelled"]]
                        ELSE chains
       IN  chains' = [cancelled EXCEPT ![NewChain] =
                         [pc |-> "scrape", plaza |-> plaza_norm,
                          interval_min |-> interval_min]]
    /\ last' = NoReturn
    /\ UNCHANGED <<variant, now, _CACHE, _SCHEDULERS, CACHE, thr, lastSet>>
    /\ UNCHANGED <<dbvars, exports>>

\* The timer of chain c expires: _schedule_job runs again, in a timer thread.
timer_fire(c) ==
    /\ chains[c].pc = "armed"
    /\ now >= chains[c].due
    /\ chains' = [chains EXCEPT ![c] =
                     [pc |-> "scrape", plaza |-> chains[c].plaza,
                      interval_min |-> chains[c].interval_min]]
    /\ last' = NoReturn
    /\ UNCHANGED <<variant, now, _CACHE, _SCHEDULERS, CACHE, thr, lastSet>>
    /\ UNCHANGED <<dbvars, exports>>

\* Variant of _schedule_job without the try/except: the exception of a failed
\* scrape ends the run before the timer is made.
job_scrape_unprotected(c, outcome, doc) ==
    /\ chains[c].pc = "scrape"
    /\ chains[c].plaza = "locales" => outcome = "ok"
    /\ LET me == chains[c]
           res == scrape_plaza(me.plaza, outcome, doc)
       IN  chains' = [chains EXCEPT ![c] =
                         IF res.ok
                         THEN [pc |-> "set1", plaza |-> me.plaza,
                               interval_min |-> me.interval_min,
                               fetch |-> outcome, items |-> res.items]
                         ELSE [pc |-> "cancelled"]]
    /\ last' = NoReturn
    /\ UNCHANGED <<variant, now, _CACHE, _SCHEDULERS, CACHE, thr, lastSet>>
    /\ UNCHANGED <<dbvars, exports>>

\* _schedule_job: items = scrape_plaza(plaza_norm) inside try/except Exception.
job_scrape(c, outcome, doc) ==
    /\ chains[c].pc = "scrape"
    /\ chains[c].plaza = "locales" => outcome = "ok"
    /\ LET me == chains[c]
           res == scrape_plaza(me.plaza, outcome, doc)
       IN  chains' = [chains EXCEPT ![c] =
                         IF res.ok
                         THEN [pc |-> "set1", plaza |-> me.plaza,
                               interval_min |-> me.interval_min,
                               fetch |-> outcome, items |-> res.items]
                         ELSE [pc |-> "arm", plaza |-> me.plaza,
                               interval_min |-> me.interval_min,
                               ok |-> FALSE]]
    /\ last' = NoReturn
    /\ UNCHANGED <<variant, now, _CACHE, _SCHEDULERS, CACHE, thr, lastSet>>
    /\ UNCHANGED <<dbvars, exports>>

\* _cache_set(f"{plaza_norm}|ob=1", [the items that do not look like futures])
job_set1(c) ==
    /\ chains[c].pc = "set1"
    /\ LET me == chains[c]
           key == <<me.plaza, 1>>
           data == DropFutures(me.items)
       IN  /\ _CACHE' = _cache_set(_CACHE, key, now, data)
           /\ lastSet' = [lastSet EXCEPT ![key] = Some(<<now, data>>)]
           /\ chains' = [chains EXCEPT ![c].pc = "set0"]
    /\ last' = NoReturn
    /\ UNCHANGED <<variant, now, _SCHEDULERS, CACHE, thr>>
    /\ UNCHANGED <<dbvars, exports>>

\* _cache_set(f"{plaza_norm}|ob=0", items)
job_set0(c) ==
    /\ chains[c].pc = "set0"
    /\ LET me == chains[c]
           key == <<me.plaza, 0>>
       IN  /\ _CACHE' = _cache_set(_CACHE, key, now, me.items)
           /\ lastSet' = [lastSet EXCEPT ![key] = Some(<<now, me.items>>)]
           /\ chains' = [chains EXCEPT ![c] =
                            [pc |-> "arm", plaza |-> me.plaza,
                             interval_min |-> me.interval_min,
                             ok |-> TRUE]]
    /\ last' = NoReturn
    /\ UNCHANGED <<variant, now, _SCHEDULERS, CACHE, thr>>
    /\ UNCHANGED <<dbvars, exports>>

\* t = threading.Timer(interval_min * 60, ...); _SCHEDULERS[plaza_norm] = t;
\* t.start()
job_arm(c) ==
    /\ chains[c].pc = "arm"
    /\ chains' = [chains EXCEPT ![c] =
                     [pc |-> "armed", plaza |-> chains[c].plaza,
                      interval_min |-> chains[c].interval_min,
                      due |-> now + chains[c].interval_min * 60]]
    /\ _SCHEDULERS' = [_SCHEDULERS EXCEPT ![chains[c].plaza] = Some(c)]
    /\ last' = NoReturn
    /\ UNCHANGED <<variant, now, _CACHE, CACHE, thr, lastSet>>
    /\ UNCHANGED <<dbvars, exports>>

\* ------------------------------------------------- v01: the aggregation
PRODUCT_ORDER == << <<"Trigo">>, <<"Maiz">>, <<"Soja">>, <<"Girasol">>,
                    <<"Sorgo">>, <<"Cebada", "Forrajera">> >>

PRODUCTS_BASE == { <<"Trigo">>, <<"Maiz">>, <<"Soja">>, <<"Girasol">>, <<"Sorgo">> }

\* n.strip(), n.replace("Maíz", "Maiz"), re.sub(r"\s+", " ", n): on a name
\* held as its words only the replacement is left to do.
normalize_product_name(name) ==
    [i \in 1..Len(name) |-> IF name[i] = "Maíz" THEN "Maiz" ELSE name[i]]

\* The normalized names of the modelled documents in the order of Python's
\* string comparison.
AlphaOrder == << <<"Cebada", "Forrajera">>, <<"Girasol">>, <<"Maiz">>,
                 <<"Soja">>, <<"Soja", "may">>, <<"Sorgo">>, <<"Trigo">>,
                 <<"Trigo", "Art", "12">>, <<"maíz">> >>

IndexOf(seq, x) ==
    IF \E i \in 1..Len(seq) : seq[i] = x
    THEN CHOOSE i \in 1..Len(seq) : seq[i] = x /\ \A j \in 1..(i - 1) : seq[j] # x
    ELSE 0

\* sort_key: (PRODUCT_ORDER.index(prod) or 999, 0 for ARS else 1, prod)
sort_key(it) ==
    LET prod == normalize_product_name(it.producto)
        idx == IF IndexOf(PRODUCT_ORDER, prod) = 0 THEN 999
               ELSE IndexOf(PRODUCT_ORDER, prod) - 1
        mon_rank == IF it.moneda = "ARS" THEN 0 ELSE 1
    IN  <<idx, mon_rank, IndexOf(AlphaOrder, prod)>>

KeyLess(a, b) ==
    \/ a[1] < b[1]
    \/ a[1] = b[1] /\ a[2] < b[2]
    \/ a[1] = b[1] /\ a[2] = b[2] /\ a[3] < b[3]

\* Insert it behind every element whose key is not greater (a stable sort).
RECURSIVE InsertSorted(_, _)
InsertSorted(sorted, it) ==
    IF sorted = <<>> THEN <<it>>
    ELSE IF KeyLess(sort_key(it), sort_key(Head(sorted)))
         THEN <<it>> \o sorted
         ELSE <<Head(sorted)>> \o InsertSorted(Tail(sorted), it)

RECURSIVE Sorted(_)
Sorted(items) ==
    IF items = <<>> THEN <<>>
    ELSE InsertSorted(Sorted(SubSeq(items, 1, Len(items) - 1)), items[Len(items)])

\* Variant of the key that takes the product name as it was read.
DedupeKey_raw(it) == <<it.producto, it.moneda>>

DedupeKey(it) == <<normalize_product_name(it.producto), it.moneda>>

\* Variant of the keep dict in which a later item with a price always takes
\* the place of the earlier one.
RECURSIVE Keep_latest_price(_)
Keep_latest_price(items) ==
    IF items = <<>> THEN <<>>
    ELSE LET rest == Keep_latest_price(SubSeq(items, 1, Len(items) - 1))
             it == items[Len(items)]
             at == {i \in 1..Len(rest) : DedupeKey(rest[i]) = DedupeKey(it)}
         IN  IF at = {} THEN Append(rest, it)
             ELSE LET i == CHOOSE j \in at : TRUE
                  IN  IF it.precio # None
                      THEN [rest EXCEPT ![i] = it]
                      ELSE rest

\* The keep dict, as the list of its values in insertion order: the first
\* item of a key stays unless it has no price and a later one has.
RECURSIVE Keep(_)
Keep(items) ==
    IF items = <<>> THEN <<>>
    ELSE LET rest == Keep(SubSeq(items, 1, Len(items) - 1))
             it == items[Len(items)]
             at == {i \in 1..Len(rest) : DedupeKey(rest[i]) = DedupeKey(it)}
         IN  IF at = {} THEN Append(rest, it)
             ELSE LET i == CHOOSE j \in at : TRUE
                  IN  IF rest[i].precio = None /\ it.precio # None
                      THEN [rest EXCEPT ![i] = it]
                      ELSE rest

\* Prices of the model are finite, so the NaN/Inf clean-up changes nothing.
dedupe_and_sort(items, only_base) ==
    LET IsBase(it) == normalize_product_name(it.producto) \in PRODUCTS_BASE
        filtered == IF only_base THEN SelectSeq(items, IsBase) ELSE items
    IN  Sorted(Keep(filtered))

\* ------------------------------------------- v01: GET /api/cotizaciones
CACHE_MAX_AGE_MIN == 1440

PLAZA_CODES == {"rosario", "bahia", "locales"}

PlazaInputs01 == {"rosario", "Bahia ", "xx"}

\* plaza.lower().strip(), then "rosario" unless it is a known plaza
plaza01(p) ==
    LET q == IF p = "Bahia " THEN "bahia" ELSE p
    IN  IF q \in PLAZA_CODES THEN q ELSE "rosario"

\* The quote rows of each published document by plaza: the product text as
\* the page prints it, the price and the currency as scrape_items reads
\* them.
Docs01 ==
    << [rosario |-> << Item(<<"Trigo">>, Some(200000), "ARS"),
                       Item(<<"Cebada", "Forrajera">>, Some(150), "ARS"),
                       Item(<<"Trigo">>, None, "USD") >>,
        bahia   |-> << Item(<<"Maíz">>, Some(100), "ARS") >>,
        locales |-> << >>],
       [rosario |-> << Item(<<"Soja">>, None, "ARS"),
                       Item(<<"Soja">>, Some(310), "ARS"),
                       Item(<<"Trigo">>, Some(210000), "ARS") >>,
        bahia   |-> << >>,
        locales |-> << >>],
       [rosario |-> << >>, bahia |-> << >>, locales |-> << >>] >>

DocIds01 == 1..Len(Docs01)

\* What scrape_items returns for a document: every product text goes through
\* normalize_product_name (line 250).
scrape_items(doc) ==
    [p \in PLAZA_CODES |->
        [i \in 1..Len(Docs01[doc][p]) |->
            Item(normalize_product_name(Docs01[doc][p][i].producto),
                 Docs01[doc][p][i].precio, Docs01[doc][p][i].moneda)]]

\* datetime.now(timezone.utc).isoformat() and datetime.fromisoformat(...) of
\* it: the text carries the instant and the "+00:00" offset.
isoformat(t) == [instant |-> t, offset |-> "+00:00"]

fromisoformat(text) ==
    IF DOMAIN text = {"instant", "offset"} /\ text.offset = "+00:00"
    THEN Some(text.instant) ELSE None

ErrorText01(outcome) ==
    CASE outcome = "timeout" -> "ReadTimeout: The read operation timed out"
      [] outcome = "http" -> "HTTPStatusError: Server error '500'"
      [] OTHER -> "KeyError: 'plaza'"

MaxAgeInputs == {0, CACHE_MAX_AGE_MIN \div 2, CACHE_MAX_AGE_MIN}

\* CACHE[plaza] = {"items": items, "fetched_at": now.isoformat()}
CACHE_set(cache, plaza, t, items) ==
    [cache EXCEPT ![plaza] = [items |-> items, fetched_at |-> Some(isoformat(t))]]

\* Variant of the age test with a strict comparison.
use_cache_strict(cached, t, max_age_min) ==
    /\ cached.items # <<>>
    /\ cached.fetched_at # None
    /\ fromisoformat(cached.fetched_at[1]) # None
    /\ t - fromisoformat(cached.fetched_at[1])[1] < max_age_min * 60

\* The except branch of api_cotizaciones: the cache is used when it holds
\* items and a parseable fetched_at no older than max_age_min minutes.
use_cache(cached, t, max_age_min) ==
    /\ cached.items # <<>>
    /\ cached.fetched_at # None
    /\ fromisoformat(cached.fetched_at[1]) # None
    /\ t - fromisoformat(cached.fetched_at[1])[1] <= max_age_min * 60

api_cotizaciones_except(cache, plaza, t, max_age_min, debug, exc) ==
    LET cached == cache[plaza]
    IN  IF use_cache(cached, t, max_age_min)
        THEN [raised |-> FALSE,
              resp |-> [items |-> cached.items, plaza |-> plaza,
                        source_url |-> SOURCE_URL, cached |-> TRUE,
                        error |-> ErrorText01(exc)]
                       @@ (IF debug # 0 THEN [debug |-> "cache_age_min"]
                           ELSE <<>>)]
        ELSE [raised |-> FALSE,
              resp |-> [items |-> <<>>, plaza |-> plaza,
                        source_url |-> SOURCE_URL, error |-> ErrorText01(exc)]]

\* The handler always scrapes first.
api_cotizaciones_call(t, plaza, only_base, debug, max_age_min) ==
    /\ variant = "v01"
    /\ thr[t].pc = "idle"
    /\ thr' = [thr EXCEPT ![t] =
                  [pc |-> "scrape", op |-> "api_cotizaciones",
                   plaza |-> plaza01(plaza), only_base |-> (only_base # 0),
                   debug |-> debug, max_age_min |-> max_age_min]]
    /\ last' = NoReturn
    /\ UNCHANGED <<variant, now, _CACHE, _SCHEDULERS, chains, CACHE, lastSet>>
    /\ UNCHANGED <<dbvars, exports>>

\* scrape_items and dedupe_and_sort, or the except branch.
api_cotizaciones_scrape(t, outcome, doc) ==
    /\ thr[t].pc = "scrape"
    /\ thr[t].op = "api_cotizaciones"
    /\ LET me == thr[t]
       IN  IF outcome = "ok"
           THEN /\ thr' = [thr EXCEPT ![t] =
                            [pc |-> "set", op |-> "api_cotizaciones",
                             plaza |-> me.plaza, only_base |-> me.only_base,
                             debug |-> me.debug, fetch |-> outcome,
                             items |-> dedupe_and_sort(scrape_items(doc)[me.plaza],
                                                       me.only_base)]]
                /\ last' = NoReturn
           ELSE /\ thr' = [thr EXCEPT ![t] = Idle]
                /\ last' = [op |-> "api_cotizaciones", step |-> "fail",
                            plaza |-> me.plaza, only_base |-> me.only_base,
                            max_age_min |-> me.max_age_min,
                            pre |-> CACHE[me.plaza], at |-> now]
                           @@ api_cotizaciones_except(CACHE, me.plaza, now,
                                  me.max_age_min, me.debug, outcome)
    /\ UNCHANGED <<variant, now, _CACHE, _SCHEDULERS, chains, CACHE, lastSet>>
    /\ UNCHANGED <<dbvars, exports>>

\* CACHE[plaza] = {...} and the return of the fresh list.
api_cotizaciones_set(t) ==
    /\ thr[t].pc = "set"
    /\ thr[t].op = "api_cotizaciones"
    /\ LET me == thr[t]
       IN  /\ CACHE' = CACHE_set(CACHE, me.plaza, now, me.items)
           /\ lastSet' = [lastSet EXCEPT ![me.plaza] = Some(<<now, me.items>>)]
           /\ last' = [op |-> "api_cotizaciones", step |-> "fresh",
                       plaza |-> me.plaza, only_base |-> me.only_base,
                       pre |-> CACHE[me.plaza], at |-> now, raised |-> FALSE,
                       resp |-> [items |-> me.items, plaza |-> me.plaza,
                                 source_url |-> SOURCE_URL]
                                @@ (IF me.debug # 0 THEN [debug |-> "scrape_ms"]
                                    ELSE <<>>)]
           /\ thr' = [thr EXCEPT ![t] = Idle]
    /\ UNCHANGED <<variant, now, _CACHE, _SCHEDULERS, chains>>
    /\ UNCHANGED <<dbvars, exports>>

\* ------------------------------------------------------- v01: GET /api/csv
FallbackInputs == {0, 1}

\* The lines of the CSV text: the header line, then one line per item.  A
\* price is written with two decimals (the prices of the documents are whole
\* numbers) and a missing price as the empty text; the names and the "s/c"
\* marks of the documents hold no comma for replace to change.
csv_text(items) ==
    << <<"producto", "precio", "moneda", "anterior", "variacion">> >>
    \o [i \in 1..Len(items) |->
          << items[i].producto,
             IF items[i].precio = None THEN <<>>
             ELSE <<items[i].precio[1], "00">>,
             items[i].moneda, items[i].anterior, items[i].variacion >>]

\* The handler always scrapes first.
api_csv_call(t, plaza, only_base, fallback_cache) ==
    /\ variant = "v01"
    /\ thr[t].pc = "idle"
    /\ thr' = [thr EXCEPT ![t] =
                  [pc |-> "scrape", op |-> "api_csv",
                   plaza |-> plaza01(plaza), only_base |-> (only_base # 0),
                   fallback_cache |-> fallback_cache]]
    /\ last' = NoReturn
    /\ UNCHANGED <<variant, now, _CACHE, _SCHEDULERS, chains, CACHE, lastSet>>
    /\ UNCHANGED <<dbvars, exports>>

\* scrape_items and dedupe_and_sort, or the except branch: the cached list,
\* whatever its age, when fallback_cache is set, the empty list otherwise.
api_csv_scrape(t, outcome, doc) ==
    /\ thr[t].pc = "scrape"
    /\ thr[t].op = "api_csv"
    /\ LET me == thr[t]
           items == IF me.fallback_cache # 0 THEN CACHE[me.plaza].items
                    ELSE <<>>
       IN  IF outcome = "ok"
           THEN /\ thr' = [thr EXCEPT ![t] =
                            [pc |-> "set", op |-> "api_csv",
                             plaza |-> me.plaza, only_base |-> me.only_base,
                             fetch |-> outcome,
                             items |-> dedupe_and_sort(scrape_items(doc)[me.plaza],
                                                       me.only_base)]]
                /\ last' = NoReturn
           ELSE /\ thr' = [thr EXCEPT ![t] = Idle]
                /\ last' = [op |-> "api_csv", step |-> "fail",
                            plaza |-> me.plaza, only_base |-> me.only_base,
                            fallback_cache |-> me.fallback_cache,
                            pre |-> CACHE[me.plaza], at |-> now,
                            raised |-> FALSE, items |-> items,
                            body |-> csv_text(items)]
    /\ UNCHANGED <<variant, now, _CACHE, _SCHEDULERS, chains, CACHE, lastSet>>
    /\ UNCHANGED <<dbvars, exports>>

\* CACHE[plaza] = {...} and the return of the CSV text of the fresh list.
api_csv_set(t) ==
    /\ thr[t].pc = "set"
    /\ thr[t].op = "api_csv"
    /\ LET me == thr[t]
       IN  /\ CACHE' = CACHE_set(CACHE, me.plaza, now, me.items)
           /\ lastSet' = [lastSet EXCEPT ![me.plaza] = Some(<<now, me.items>>)]
           /\ last' = [op |-> "api_csv", step |-> "fresh",
                       plaza |-> me.plaza, only_base |-> me.only_base,
                       pre |-> CACHE[me.plaza], at |-> now, raised |-> FALSE,
                       items |-> me.items, body |-> csv_text(me.items)]
           /\ thr' = [thr EXCEPT ![t] = Idle]
    /\ UNCHANGED <<variant, now, _CACHE, _SCHEDULERS, chains>>
    /\ UNCHANGED <<dbvars, exports>>

\* ------------------------------------------- v01: POST /api/export/oracle
GRAIN_CODE(prod) ==
    CASE prod = <<"Trigo">> -> 10
      [] prod = <<"Maiz">> -> 200
      [] prod = <<"Soja">> -> 210
      [] prod = <<"Sorgo">> -> 220
      [] prod = <<"Girasol">> -> 230
      [] OTHER -> 0

PLAZA_CODE(plaza) ==
    CASE plaza = "rosario" -> "ROS"
      [] plaza = "bahia" -> "BAH"
      [] plaza = "locales" -> "LOC"
      [] OTHER -> "ROS"

\* The days from 0000-03-01 to the date y-m-d of the Gregorian calendar.
DaysFromCivil(y, m, d) ==
    LET yy == IF m <= 2 THEN y - 1 ELSE y
        era == yy \div 400
        yoe == yy - era * 400
        mp == IF m > 2 THEN m - 3 ELSE m + 9
        doy == (153 * mp + 2) \div 5 + d - 1
    IN  era * 146097 + yoe * 365 + yoe \div 4 - yoe \div 100 + doy

\* (dt - date(1800, 12, 28)).days, for a date held as the number YYYYMMDD.
clarion_date(dt) ==
    DaysFromCivil(dt \div 10000, (dt \div 100) % 100, dt % 100)
       - DaysFromCivil(1800, 12, 28)

\* ('OCT26', 2026): the text of the month as the pair of its abbreviation
\* and the two-digit year.
mes_ejercicio(dt) ==
    LET abbr == <<"ENE", "FEB", "MAR", "ABR", "MAY", "JUN", "JUL", "AGO",
                  "SEP", "OCT", "NOV", "DIC">>
    IN  [mes |-> <<abbr[(dt \div 100) % 100], (dt \div 10000) % 100>>,
         ejercicio |-> dt \div 10000]

\* build_oracle_rows after the scrape: per base product the first quote, or
\* the latest quote in ARS that follows it; then, in the order of
\* PRODUCT_ORDER, one row per product that has a price and a code, with
\* UVALUE counted up from the clock in milliseconds.  float(precio) leaves
\* the whole prices of the documents as they are.
build_oracle_rows(raw, plaza, dt, t) ==
    LET Of(prod) == {i \in 1..Len(raw) :
                        normalize_product_name(raw[i].producto) = prod}
        FirstOf(prod) == CHOOSE i \in Of(prod) : \A j \in Of(prod) : i <= j
        Later(prod) == {i \in Of(prod) : i > FirstOf(prod) /\ raw[i].moneda = "ARS"}
        by_prod(prod) ==
            IF Later(prod) = {} THEN raw[FirstOf(prod)]
            ELSE raw[CHOOSE i \in Later(prod) : \A j \in Later(prod) : j <= i]
        Kept(prod) == /\ prod \in PRODUCTS_BASE
                      /\ Of(prod) # {}
                      /\ by_prod(prod).precio # None
                      /\ GRAIN_CODE(prod) # 0
        prods == SelectSeq(PRODUCT_ORDER, Kept)
    IN  [idx \in 1..Len(prods) |->
            [GRANO |-> GRAIN_CODE(prods[idx]), SIGLO |-> 0, COSECHA |-> "0000",
             PIZARRA |-> PLAZA_CODE(plaza), FECHAVIG |-> clarion_date(dt),
             MES |-> mes_ejercicio(dt).mes,
             EJERCICIO |-> mes_ejercicio(dt).ejercicio,
             PRECIOREF |-> by_prod(prods[idx]).precio[1],
             UVALUE |-> t * 1000 + (idx - 1)]]

OverwriteInputs == {0, 1}

\* Every failure of the handler returns the same shape.
api_export_oracle_fail(t, extra) ==
    /\ thr' = [thr EXCEPT ![t] = Idle]
    /\ last' = [op |-> "api_export_oracle", plaza |-> thr[t].plaza,
                overwrite |-> thr[t].overwrite,
                rows |-> IF "rows" \in DOMAIN thr[t] THEN thr[t].rows ELSE <<>>,
                before |-> TB_REF, after |-> TB_REF,
                resp |-> [ok |-> FALSE, exported |-> 0, plaza |-> thr[t].plaza]
                         @@ extra]
    /\ UNCHANGED TB_REF

api_export_oracle_call(t, plaza, only_base, overwrite) ==
    /\ variant = "v01"
    /\ thr[t].pc = "idle"
    /\ thr' = [thr EXCEPT ![t] =
                  [pc |-> "build", op |-> "api_export_oracle",
                   plaza |-> plaza01(plaza), only_base |-> (only_base # 0),
                   overwrite |-> overwrite]]
    /\ last' = NoReturn
    /\ UNCHANGED <<variant, now, _CACHE, _SCHEDULERS, chains, CACHE, lastSet>>
    /\ UNCHANGED <<dbvars, exports>>

\* build_oracle_rows, the return when there is no row, and the reading of
\* the credentials of the store.
api_export_oracle_build(t, outcome, doc, configured) ==
    /\ thr[t].pc = "build"
    /\ thr[t].op = "api_export_oracle"
    /\ LET me == thr[t]
           raw == dedupe_and_sort(scrape_items(doc)[me.plaza], me.only_base)
           rows == build_oracle_rows(raw, me.plaza, today, now)
       IN  IF outcome # "ok"
           THEN api_export_oracle_fail(t, [error |-> ErrorText01(outcome)])
           ELSE IF rows = <<>>
           THEN api_export_oracle_fail(t, [reason |-> "No hay filas exportables"])
           ELSE IF ~configured
           THEN api_export_oracle_fail(t,
                   [oracle_disabled |-> TRUE,
                    reason |-> "Credenciales Oracle no configuradas"])
           ELSE /\ thr' = [thr EXCEPT ![t] =
                            [pc |-> "connect", op |-> "api_export_oracle",
                             plaza |-> me.plaza, overwrite |-> me.overwrite,
                             rows |-> rows, deleted |-> {}, added |-> {}]]
                /\ last' = NoReturn
                /\ UNCHANGED TB_REF
    /\ UNCHANGED <<variant, now, _CACHE, _SCHEDULERS, chains, CACHE, lastSet>>
    /\ UNCHANGED <<GRANO, today, exports>>

\* with oracledb.connect(...) as con: cur = con.cursor()
api_export_oracle_connect(t, db) ==
    /\ thr[t].pc = "connect"
    /\ thr[t].op = "api_export_oracle"
    /\ IF db = "ok"
       THEN /\ thr' = [thr EXCEPT ![t].pc =
                         IF thr[t].overwrite # 0 THEN "delete" ELSE "insert"]
            /\ last' = NoReturn
            /\ UNCHANGED TB_REF
       ELSE api_export_oracle_fail(t, [error |-> "DPY-6005: cannot connect"])
    /\ UNCHANGED <<variant, now, _CACHE, _SCHEDULERS, chains, CACHE, lastSet>>
    /\ UNCHANGED <<GRANO, today, exports>>

\* DELETE FROM TB_REF WHERE PIZARRA = :p AND FECHAVIG = :fv AND MES = :m AND
\* EJERCICIO = :e, with the values of the first row; the rows leave the
\* store at the commit.
api_export_oracle_delete(t, db) ==
    /\ thr[t].pc = "delete"
    /\ LET r1 == thr[t].rows[1]
       IN  IF db = "ok"
           THEN /\ thr' = [thr EXCEPT
                             ![t].pc = "insert",
                             ![t].deleted =
                                 {r \in TB_REF : /\ r.PIZARRA = r1.PIZARRA
                                                 /\ r.FECHAVIG = r1.FECHAVIG
                                                 /\ r.MES = r1.MES
                                                 /\ r.EJERCICIO = r1.EJERCICIO}]
                /\ last' = NoReturn
                /\ UNCHANGED TB_REF
           ELSE api_export_oracle_fail(t, [error |-> "ORA-03113"])
    /\ UNCHANGED <<variant, now, _CACHE, _SCHEDULERS, chains, CACHE, lastSet>>
    /\ UNCHANGED <<GRANO, today, exports>>

\* cur.executemany(INSERT INTO TB_REF ...): UVALUE is the key of TB_REF, so
\* a row whose UVALUE the connection sees in the table fails the batch.
api_export_oracle_insert(t, db) ==
    /\ thr[t].pc = "insert"
    /\ LET me == thr[t]
           visible == TB_REF \ me.deleted
           data == {me.rows[i] : i \in 1..Len(me.rows)}
       IN  IF db # "ok"
           THEN api_export_oracle_fail(t, [error |-> "ORA-03113"])
           ELSE IF \E r \in data, q \in visible : r.UVALUE = q.UVALUE
           THEN api_export_oracle_fail(t,
                   [error |-> "ORA-00001: unique constraint violated"])
           ELSE /\ thr' = [thr EXCEPT ![t].pc = "commit", ![t].added = data]
                /\ last' = NoReturn
                /\ UNCHANGED TB_REF
    /\ UNCHANGED <<variant, now, _CACHE, _SCHEDULERS, chains, CACHE, lastSet>>
    /\ UNCHANGED <<GRANO, today, exports>>

\* con.commit() and the return of the count.
api_export_oracle_commit(t, db) ==
    /\ thr[t].pc = "commit"
    /\ thr[t].op = "api_export_oracle"
    /\ LET me == thr[t]
           after == (TB_REF \ me.deleted) \cup me.added
       IN  IF db = "ok"
           THEN /\ TB_REF' = after
                /\ thr' = [thr EXCEPT ![t] = Idle]
                /\ last' = [op |-> "api_export_oracle", plaza |-> me.plaza,
                            overwrite |-> me.overwrite, rows |-> me.rows,
                            before |-> TB_REF, after |-> after,
                            resp |-> [ok |-> TRUE, exported |-> Len(me.rows),
                                      plaza |-> me.plaza]]
           ELSE api_export_oracle_fail(t, [error |-> "ORA-03114"])
    /\ UNCHANGED <<variant, now, _CACHE, _SCHEDULERS, chains, CACHE, lastSet>>
    /\ UNCHANGED <<GRANO, today, exports>>

\* ------------------------------------------------------------ environment
\* The clock advances by half of the staleness bound of the handler in use.
TickSeconds == IF variant = "v16" THEN _CACHE_TTL \div 2
               ELSE (CACHE_MAX_AGE_MIN * 60) \div 2

Tick ==
    /\ now + TickSeconds <= MaxTicks * TickSeconds
    /\ now' = now + TickSeconds
    /\ last' = NoReturn
    /\ UNCHANGED <<variant, _CACHE, _SCHEDULERS, chains, CACHE, thr, lastSet>>
    /\ UNCHANGED <<dbvars, exports>>

\* Midnight passes.
NewDay ==
    /\ today = Days[1]
    /\ today' = Days[2]
    /\ last' = NoReturn
    /\ UNCHANGED <<variant, now, _CACHE, _SCHEDULERS, chains, CACHE, thr,
                   lastSet, TB_REF, GRANO, exports>>

vars == <<variant, now, _CACHE, _SCHEDULERS, chains, CACHE, thr, last, lastSet,
          TB_REF, GRANO, today, exports>>

Init ==
    /\ variant \in {"v01", "v16"}
    /\ now = 0
    /\ _CACHE = [k \in Keys16 |-> None]
    /\ _SCHEDULERS = [p \in Plazas16 |-> None]
    /\ chains = [c \in ChainIds |-> Unused]
    /\ CACHE = [p \in PLAZA_CODES |-> [items |-> <<>>, fetched_at |-> None]]
    /\ thr = [t \in RequestThreads |-> Idle]
    /\ last = NoReturn
    /\ lastSet = IF variant = "v16" THEN [k \in Keys16 |-> None]
                 ELSE [p \in PLAZA_CODES |-> None]
    /\ TB_REF = {}
    /\ GRANO = GranoCodes
    /\ today = Days[1]
    /\ exports = <<>>

DebugInputs == {0, 1}

\* The two generations of the query handler: v16 with two request threads,
\* v01 with one.
Next ==
    \/ \E t \in RequestThreads, p \in PlazaInputs, ob \in OnlyBaseInputs :
          cotizaciones_call(t, p, ob)
    \/ \E t \in RequestThreads, o \in FetchOutcomes, d \in DocIds16 :
          cotizaciones_scrape(t, o, d)
    \/ \E t \in RequestThreads : cotizaciones_set(t)
    \/ \E p \in PlazaInputs01, ob \in OnlyBaseInputs, dbg \in DebugInputs,
          m \in MaxAgeInputs : api_cotizaciones_call("r1", p, ob, dbg, m)
    \/ \E o \in FetchOutcomes, d \in DocIds01 : api_cotizaciones_scrape("r1", o, d)
    \/ api_cotizaciones_set("r1")
    \/ \E p \in PlazaInputs01, ob \in OnlyBaseInputs, f \in FallbackInputs :
          api_csv_call("r1", p, ob, f)
    \/ \E o \in FetchOutcomes, d \in DocIds01 : api_csv_scrape("r1", o, d)
    \/ api_csv_set("r1")
    \/ Tick

Spec == Init /\ [][Next]_vars

\* Every writer of the caches: v16 with its scheduler and one request thread
\* asking for the base products of Rosario, and the v01 handler.
InitSched == Init

NextSched ==
    \/ \E p \in {"rosario"}, ob \in {1} : cotizaciones_call("r1", p, ob)
    \/ \E o \in FetchOutcomes, d \in DocIds16 : cotizaciones_scrape("r1", o, d)
    \/ cotizaciones_set("r1")
    \/ \E p \in PlazaInputs, i \in {1} : start_automation(p, i)
    \/ \E c \in ChainIds : timer_fire(c)
    \/ \E c \in ChainIds, o \in FetchOutcomes, d \in DocIds16 : job_scrape(c, o, d)
    \/ \E c \in ChainIds : job_set1(c)
    \/ \E c \in ChainIds : job_set0(c)
    \/ \E c \in ChainIds : job_arm(c)
    \/ \E p \in PlazaInputs01, ob \in OnlyBaseInputs, dbg \in DebugInputs,
          m \in MaxAgeInputs : api_cotizaciones_call("r1", p, ob, dbg, m)
    \/ \E o \in FetchOutcomes, d \in DocIds01 : api_cotizaciones_scrape("r1", o, d)
    \/ api_cotizaciones_set("r1")
    \/ \E p \in PlazaInputs01, ob \in OnlyBaseInputs, f \in FallbackInputs :
          api_csv_call("r1", p, ob, f)
    \/ \E o \in FetchOutcomes, d \in DocIds01 : api_csv_scrape("r1", o, d)
    \/ api_csv_set("r1")
    \/ Tick

SpecSched == InitSched /\ [][NextSched]_vars

\* The scheduler alone, with the progress its threads make: the clock
\* advances, a timer that is due fires, and a run that has started takes its
\* next step.
InitLive ==
    /\ Init
    /\ variant = "v16"

NextLive ==
    \/ \E p \in PlazaInputs, i \in IntervalInputs : start_automation(p, i)
    \/ \E c \in ChainIds : timer_fire(c)
    \/ \E c \in ChainIds, o \in FetchOutcomes, d \in DocIds16 : job_scrape(c, o, d)
    \/ \E c \in ChainIds : job_set1(c)
    \/ \E c \in ChainIds : job_set0(c)
    \/ \E c \in ChainIds : job_arm(c)
    \/ Tick

FairLive ==
    /\ WF_vars(Tick)
    /\ \A c \in ChainIds :
          /\ WF_vars(timer_fire(c))
          /\ WF_vars(\E o \in FetchOutcomes, d \in DocIds16 : job_scrape(c, o, d))
          /\ WF_vars(job_set1(c))
          /\ WF_vars(job_set0(c))
          /\ WF_vars(job_arm(c))

SpecLive == InitLive /\ [][NextLive]_vars /\ FairLive

\* v16 with its export: one request thread that queries and exports Rosario.
InitExport ==
    /\ Init
    /\ variant = "v16"

DbOutcomes == {"ok", "fail"}

NextExport ==
    \/ \E p \in PlazaInputs : export_oracle_call("r1", p, 1)
    \/ \E o \in FetchOutcomes, d \in ExportDocIds : cotizaciones_scrape("r1", o, d)
    \/ cotizaciones_set("r1")
    \/ \E db \in DbOutcomes : export_oracle_connect("r1", db)
    \/ \E db \in DbOutcomes : export_oracle_row("r1", db)
    \/ \E db \in DbOutcomes : export_oracle_merge("r1", db)
    \/ \E db \in DbOutcomes : export_oracle_commit("r1", db)
    \/ Tick
    \/ NewDay

SpecExport == InitExport /\ [][NextExport]_vars

\* v01 with its export: one request thread that exports the base products.
InitExport01 ==
    /\ Init
    /\ variant = "v01"

NextExport01 ==
    \/ \E p \in PlazaInputs01, ow \in OverwriteInputs :
          api_export_oracle_call("r1", p, 1, ow)
    \/ \E o \in FetchOutcomes, d \in DocIds01, c \in BOOLEAN :
          api_export_oracle_build("r1", o, d, c)
    \/ \E db \in DbOutcomes : api_export_oracle_connect("r1", db)
    \/ \E db \in DbOutcomes : api_export_oracle_delete("r1", db)
    \/ \E db \in DbOutcomes : api_export_oracle_insert("r1", db)
    \/ \E db \in DbOutcomes : api_export_oracle_commit("r1", db)
    \/ Tick
    \/ NewDay

SpecExport01 == InitExport01 /\ [][NextExport01]_vars

\* dedupe_and_sort on its own: every list of up to MaxLen scraped rows, with
\* and without the base filter.
MaxLen == 3

AggItems ==
    { Item(<<"Trigo">>, Some(100), "ARS"),
      Item(<<"Trigo">>, None, "ARS"),
      Item(<<"Trigo">>, Some(200), "ARS"),
      Item(<<"Trigo">>, Some(300), "USD"),
      Item(<<"Maíz">>, Some(50), "ARS"),
      Item(<<"Maiz">>, None, "ARS"),
      Item(<<"Soja", "may">>, Some(310), "USD"),
      Item(<<"Trigo", "Art", "12">>, Some(120), "ARS"),
      Item(<<"Cebada", "Forrajera">>, Some(150), "ARS") }

AggInputs == UNION { [1..n -> AggItems] : n \in 0..MaxLen }

InitAgg ==
    /\ variant = "v01"
    /\ now = 0
    /\ _CACHE = [k \in Keys16 |-> None]
    /\ _SCHEDULERS = [p \in Plazas16 |-> None]
    /\ chains = [c \in ChainIds |-> Unused]
    /\ CACHE = [p \in PLAZA_CODES |-> [items |-> <<>>, fetched_at |-> None]]
    /\ \E items \in AggInputs, only_base \in BOOLEAN :
          thr = [t \in RequestThreads |->
                   IF t = "r1"
                   THEN [pc |-> "dedupe", op |-> "dedupe_and_sort",
                         items |-> items, only_base |-> only_base]
                   ELSE Idle]
    /\ last = NoReturn
    /\ lastSet = [p \in PLAZA_CODES |-> None]
    /\ TB_REF = {}
    /\ GRANO = GranoCodes
    /\ today = Days[1]
    /\ exports = <<>>

\* The call dedupe_and_sort(items, only_base) and its return value.
dedupe_and_sort_call(t) ==
    /\ thr[t].pc = "dedupe"
    /\ last' = [op |-> "dedupe_and_sort", items |-> thr[t].items,
                only_base |-> thr[t].only_base,
                out |-> dedupe_and_sort(thr[t].items, thr[t].only_base)]
    /\ thr' = [thr EXCEPT ![t] = Idle]
    /\ UNCHANGED <<variant, now, _CACHE, _SCHEDULERS, chains, CACHE, lastSet>>
    /\ UNCHANGED <<dbvars, exports>>

NextAgg == dedupe_and_sort_call("r1")

SpecAgg == InitAgg /\ [][NextAgg]_vars

\* ------------------------------------------------- v16: reading a price
\* A text is the sequence of its characters; a float is the pair of an
\* integer and the number of decimal places it is shifted by, with no
\* trailing zero decimals: 1234.56 is [num |-> 123456, exp |-> 2].
Digits == {"0", "1", "2", "3", "4", "5", "6", "7", "8", "9"}

DigitValue(c) ==
    CASE c = "0" -> 0 [] c = "1" -> 1 [] c = "2" -> 2 [] c = "3" -> 3
      [] c = "4" -> 4 [] c = "5" -> 5 [] c = "6" -> 6 [] c = "7" -> 7
      [] c = "8" -> 8 [] c = "9" -> 9

\* str.strip() for texts whose only white space is the blank.
RECURSIVE StripText(_)
StripText(s) ==
    IF s = <<>> THEN s
    ELSE IF Head(s) = " " THEN StripText(Tail(s))
    ELSE IF s[Len(s)] = " " THEN StripText(SubSeq(s, 1, Len(s) - 1))
    ELSE s

\* str.lower() on the letters of the modelled texts.
LowerText(s) ==
    [i \in 1..Len(s) |-> CASE s[i] = "S" -> "s" [] s[i] = "C" -> "c"
                            [] s[i] = "D" -> "d" [] OTHER -> s[i]]

\* re.sub(r"[^0-9,.\-]", "", s)
KeepNumeric(s) ==
    LET Kept(c) == c \in Digits \cup {",", ".", "-"}
    IN  SelectSeq(s, Kept)

\* s.replace(".", "")
RemovePeriods(s) ==
    LET NotPeriod(c) == c # "."
    IN  SelectSeq(s, NotPeriod)

\* s.replace(",", ".")
CommaToPeriod(s) == [i \in 1..Len(s) |-> IF s[i] = "," THEN "." ELSE s[i]]

Has(s, c) == \E i \in 1..Len(s) : s[i] = c

RECURSIVE DigitsValue(_)
DigitsValue(ds) ==
    IF ds = <<>> THEN 0
    ELSE 10 * DigitsValue(SubSeq(ds, 1, Len(ds) - 1)) + DigitValue(ds[Len(ds)])

RECURSIVE Float(_, _)
Float(num, exp) ==
    IF exp > 0 /\ num % 10 = 0 THEN Float(num \div 10, exp - 1)
    ELSE [num |-> num, exp |-> exp]

\* float(s) for a text of digits, periods and minus signs: an optional
\* leading minus, then digits with at most one period and at least one
\* digit; anything else is a ValueError, given here as None.
float(s) ==
    LET neg == s # <<>> /\ s[1] = "-"
        body == IF neg THEN Tail(s) ELSE s
        dots == {i \in 1..Len(body) : body[i] = "."}
    IN  IF \/ \E i \in 1..Len(body) : body[i] \notin Digits \cup {"."}
           \/ Cardinality(dots) > 1
           \/ \A i \in 1..Len(body) : body[i] \notin Digits
        THEN None
        ELSE LET d == IF dots = {} THEN Len(body) + 1 ELSE CHOOSE i \in dots : TRUE
                 whole == SubSeq(body, 1, d - 1)
                 frac == SubSeq(body, d + 1, Len(body))
                 abs == Float(DigitsValue(whole \o frac), Len(frac))
             IN  Some([num |-> IF neg THEN 0 - abs.num ELSE abs.num,
                       exp |-> abs.exp])

NotQuotedTexts ==
    { <<"s", "/", "c">>, <<"s", "c">>, <<"s", " ", "/", " ", "c">>, <<"-">>, <<>> }

\* Variant that takes every period for a thousands separator.
_clean_num_period_thousands(val) ==
    LET s == StripText(val)
    IN  IF LowerText(s) \in NotQuotedTexts THEN None
        ELSE float(CommaToPeriod(RemovePeriods(KeepNumeric(s))))

\* _clean_num: None for a not-quoted text, else the float of what is left of
\* the text after the separators are settled, None when that is no number.
_clean_num(val) ==
    LET s == StripText(val)
        kept == KeepNumeric(s)
    IN  IF LowerText(s) \in NotQuotedTexts THEN None
        ELSE IF Has(kept, ",") /\ Has(kept, ".")
             THEN float(CommaToPeriod(RemovePeriods(kept)))
             ELSE IF Has(kept, ",") THEN float(CommaToPeriod(kept))
                  ELSE float(kept)

\* _clean_num on its own: every text of up to MaxText characters of
\* TextChars, and the price texts of the page.
MaxText == 4

TextChars == {"0", "1", ",", ".", "-", "s", "S", "/", "c", " "}

SampleTexts ==
    { <<"4", "8", "0", ".", "0", "0", "0", ",", "0", "0">>,
      <<"1", ".", "2", "3", "4", ",", "5", "6">>,
      <<"s", " ", "/", " ", "c">>,
      <<"$", " ", "2", "7", "5", ".", "7", "3", "0">>,
      <<"2", "7", "5", ",", "7", "3", "0", ".", "0", "0">> }

PriceTexts == SampleTexts \cup UNION { [1..n -> TextChars] : n \in 0..MaxText }

InitNum ==
    /\ variant = "v16"
    /\ now = 0
    /\ _CACHE = [k \in Keys16 |-> None]
    /\ _SCHEDULERS = [p \in Plazas16 |-> None]
    /\ chains = [c \in ChainIds |-> Unused]
    /\ CACHE = [p \in PLAZA_CODES |-> [items |-> <<>>, fetched_at |-> None]]
    /\ \E val \in PriceTexts :
          thr = [t \in RequestThreads |->
                   IF t = "r1"
                   THEN [pc |-> "clean", op |-> "_clean_num", val |-> val]
                   ELSE Idle]
    /\ last = NoReturn
    /\ lastSet = [k \in Keys16 |-> None]
    /\ TB_REF = {}
    /\ GRANO = GranoCodes
    /\ today = Days[1]
    /\ exports = <<>>

\* The call _clean_num(val) and its return value.
_clean_num_call(t) ==
    /\ thr[t].pc = "clean"
    /\ last' = [op |-> "_clean_num", val |-> thr[t].val,
                out |-> _clean_num(thr[t].val)]
    /\ thr' = [thr EXCEPT ![t] = Idle]
    /\ UNCHANGED <<variant, now, _CACHE, _SCHEDULERS, chains, CACHE, lastSet>>
    /\ UNCHANGED <<dbvars, exports>>

NextNum == _clean_num_call("r1")

SpecNum == InitNum /\ [][NextNum]_vars

\* ------------------------------------------------ v01: read_site_html
attempts == 3

RECURSIVE Power(_, _)
Power(b, n) == IF n = 0 THEN 1 ELSE b * Power(b, n - 1)

\* backoff ** i with backoff = 1.6, in seconds
backoff(i) == Float(Power(16, i), i)

\* read_site_html(url) is entered: i = 0, last_err = None.  causes and slept
\* list the exceptions and the sleeps of the call so far.
read_site_html_call(t) ==
    /\ variant = "v01"
    /\ thr[t].pc = "idle"
    /\ thr' = [thr EXCEPT ![t] =
                  [pc |-> "attempt", op |-> "read_site_html", i |-> 0,
                   last_err |-> None, causes |-> <<>>, slept |-> <<>>]]
    /\ last' = NoReturn
    /\ UNCHANGED <<variant, now, _CACHE, _SCHEDULERS, chains, CACHE, lastSet>>
    /\ UNCHANGED <<dbvars, exports>>

\* Variant that raises the error of the first attempt.
read_site_html_attempt_first_error(t, outcome, doc) ==
    /\ thr[t].pc = "attempt"
    /\ thr[t].op = "read_site_html"
    /\ LET me == thr[t]
           causes == Append(me.causes, outcome)
       IN  IF outcome = "ok"
           THEN /\ thr' = [thr EXCEPT ![t] = Idle]
                /\ last' = [op |-> "read_site_html", raised |-> FALSE,
                            text |-> doc, causes |-> me.causes,
                            slept |-> me.slept]
           ELSE IF me.i < attempts - 1
                THEN /\ thr' = [thr EXCEPT ![t] =
                                  [pc |-> "sleep", op |-> "read_site_html",
                                   i |-> me.i, last_err |-> Some(outcome),
                                   causes |-> causes, slept |-> me.slept]]
                     /\ last' = NoReturn
                ELSE /\ thr' = [thr EXCEPT ![t] = Idle]
                     /\ last' = [op |-> "read_site_html", raised |-> TRUE,
                                 exc |-> causes[1], causes |-> causes,
                                 slept |-> me.slept]
    /\ UNCHANGED <<variant, now, _CACHE, _SCHEDULERS, chains, CACHE, lastSet>>
    /\ UNCHANGED <<dbvars, exports>>

\* One pass of the loop body: client.get(url) returns the text of the
\* document, or raises; after the last attempt the loop ends and last_err is
\* raised.
read_site_html_attempt(t, outcome, doc) ==
    /\ thr[t].pc = "attempt"
    /\ thr[t].op = "read_site_html"
    /\ LET me == thr[t]
           causes == Append(me.causes, outcome)
       IN  IF outcome = "ok"
           THEN /\ thr' = [thr EXCEPT ![t] = Idle]
                /\ last' = [op |-> "read_site_html", raised |-> FALSE,
                            text |-> doc, causes |-> me.causes,
                            slept |-> me.slept]
           ELSE IF me.i < attempts - 1
                THEN /\ thr' = [thr EXCEPT ![t] =
                                  [pc |-> "sleep", op |-> "read_site_html",
                                   i |-> me.i, last_err |-> Some(outcome),
                                   causes |-> causes, slept |-> me.slept]]
                     /\ last' = NoReturn
                ELSE /\ thr' = [thr EXCEPT ![t] = Idle]
                     /\ last' = [op |-> "read_site_html", raised |-> TRUE,
                                 exc |-> outcome, causes |-> causes,
                                 slept |-> me.slept]
    /\ UNCHANGED <<variant, now, _CACHE, _SCHEDULERS, chains, CACHE, lastSet>>
    /\ UNCHANGED <<dbvars, exports>>

\* time.sleep(backoff ** i), and the next pass of the loop.
read_site_html_sleep(t) ==
    /\ thr[t].pc = "sleep"
    /\ thr[t].op = "read_site_html"
    /\ thr' = [thr EXCEPT ![t] =
                  [pc |-> "attempt", op |-> "read_site_html", i |-> thr[t].i + 1,
                   last_err |-> thr[t].last_err, causes |-> thr[t].causes,
                   slept |-> Append(thr[t].slept, backoff(thr[t].i))]]
    /\ last' = NoReturn
    /\ UNCHANGED <<variant, now, _CACHE, _SCHEDULERS, chains, CACHE, lastSet>>
    /\ UNCHANGED <<dbvars, exports>>

\* Two request threads that fetch the page.
InitFetch01 ==
    /\ Init
    /\ variant = "v01"

NextFetch01 ==
    \/ \E t \in RequestThreads : read_site_html_call(t)
    \/ \E t \in RequestThreads, o \in FetchOutcomes, d \in DocIds01 :
          read_site_html_attempt(t, o, d)
    \/ \E t \in RequestThreads : read_site_html_sleep(t)

SpecFetch01 == InitFetch01 /\ [][NextFetch01]_vars

\* ----------------------------------------------------- v16: fetch_html
\* os.environ.get("SCRAPER_DRIVER", "auto").lower(): auto | requests |
\* playwright
DriverInputs == {"auto", "requests", "playwright"}

\* How requests.get and raise_for_status end: with the text of the page,
\* with an HTTPError of some status, with requests.Timeout or with a
\* ConnectionError.
PrimaryOutcomes == {"ok", "http403", "http429", "http500", "timeout", "network"}

\* getattr(e.response, "status_code", None); 0 when the failure is no
\* HTTPError.
status_code(outcome) ==
    CASE outcome = "http403" -> 403
      [] outcome = "http429" -> 429
      [] outcome = "http500" -> 500
      [] OTHER -> 0

\* What a browser renders: the page, or one of the refusals of the site.
PageTexts == {"<html>cotizaciones</html>", "<html>Acceso denegado</html>",
              "<html>403 Forbidden</html>"}

PageStatuses == {200, 403, 429}

\* needle in html, for the texts above
Contains(html, needle) ==
    \/ needle = "Acceso denegado" /\ html = "<html>Acceso denegado</html>"
    \/ needle = "Forbidden" /\ html = "<html>403 Forbidden</html>"

\* Variant that looks at the status only.
Blocked_status_only(status, html) == status = 403

\* not (status != 403 and "Acceso denegado" not in html and "Forbidden" not
\* in html)
Blocked(status, html) ==
    ~(status # 403 /\ ~Contains(html, "Acceso denegado") /\ ~Contains(html, "Forbidden"))

\* fetch_html(url) is entered and reads the driver.  tried lists the
\* engines _try_browser was called with, unclosed the browsers that were
\* launched and on which close() has not been called.
fetch_html_call(t, driver) ==
    /\ variant = "v16"
    /\ thr[t].pc = "idle"
    /\ thr' = [thr EXCEPT ![t] =
                  [pc |-> IF driver \in {"auto", "requests"} THEN "requests"
                          ELSE "playwright",
                   op |-> "fetch_html", driver |-> driver, primary |-> None,
                   engine |-> "chromium", tried |-> <<>>, first |-> None,
                   unclosed |-> {}, out |-> None]]
    /\ last' = NoReturn
    /\ UNCHANGED <<variant, now, _CACHE, _SCHEDULERS, chains, CACHE, lastSet>>
    /\ UNCHANGED <<dbvars, exports>>

\* The record fetch_html ends with: the text it returns or the exception it
\* raises.
fetch_html_end(me, raised, value) ==
    [op |-> "fetch_html", raised |-> raised, value |-> value,
     driver |-> me.driver, primary |-> me.primary, tried |-> me.tried,
     first |-> me.first, unclosed |-> me.unclosed]

\* Variant that falls back to the browser on every HTTPError.
fetch_html_requests_any_status(t, outcome) ==
    /\ thr[t].pc = "requests"
    /\ thr[t].op = "fetch_html"
    /\ LET me == [thr[t] EXCEPT !.primary = Some(outcome)]
       IN  IF outcome = "ok"
           THEN /\ thr' = [thr EXCEPT ![t] = Idle]
                /\ last' = fetch_html_end(me, FALSE, "<html>cotizaciones</html>")
           ELSE IF status_code(outcome) # 0
                THEN /\ thr' = [thr EXCEPT ![t] = [me EXCEPT !.pc = "playwright"]]
                     /\ last' = NoReturn
                ELSE /\ thr' = [thr EXCEPT ![t] = Idle]
                     /\ last' = fetch_html_end(me, TRUE, outcome)
    /\ UNCHANGED <<variant, now, _CACHE, _SCHEDULERS, chains, CACHE, lastSet>>
    /\ UNCHANGED <<dbvars, exports>>

\* _requests_fetch() inside the try: the text is returned; an HTTPError
\* with 403 or 429 in mode auto goes on to Playwright; every other
\* exception leaves fetch_html.
fetch_html_requests(t, outcome) ==
    /\ thr[t].pc = "requests"
    /\ thr[t].op = "fetch_html"
    /\ LET me == [thr[t] EXCEPT !.primary = Some(outcome)]
       IN  IF outcome = "ok"
           THEN /\ thr' = [thr EXCEPT ![t] = Idle]
                /\ last' = fetch_html_end(me, FALSE, "<html>cotizaciones</html>")
           ELSE IF me.driver = "auto" /\ status_code(outcome) \in {403, 429}
                THEN /\ thr' = [thr EXCEPT ![t] = [me EXCEPT !.pc = "playwright"]]
                     /\ last' = NoReturn
                ELSE /\ thr' = [thr EXCEPT ![t] = Idle]
                     /\ last' = fetch_html_end(me, TRUE, outcome)
    /\ UNCHANGED <<variant, now, _CACHE, _SCHEDULERS, chains, CACHE, lastSet>>
    /\ UNCHANGED <<dbvars, exports>>

\* _fetch_with_playwright: the import and sync_playwright().__enter__, which
\* start the driver or raise.
_fetch_with_playwright_enter(t, ok) ==
    /\ thr[t].pc = "playwright"
    /\ thr[t].op = "fetch_html"
    /\ IF ok
       THEN /\ thr' = [thr EXCEPT ![t] = [thr[t] EXCEPT !.pc = "launch"]]
            /\ last' = NoReturn
       ELSE /\ thr' = [thr EXCEPT ![t] = Idle]
            /\ last' = fetch_html_end(thr[t], TRUE, "driver")
    /\ UNCHANGED <<variant, now, _CACHE, _SCHEDULERS, chains, CACHE, lastSet>>
    /\ UNCHANGED <<dbvars, exports>>

\* _try_browser(p, engine): browser_type.launch(...)
_try_browser_launch(t, ok) ==
    /\ thr[t].pc = "launch"
    /\ thr[t].op = "fetch_html"
    /\ LET me == [thr[t] EXCEPT !.tried = Append(@, thr[t].engine)]
       IN  thr' = [thr EXCEPT ![t] =
                     IF ok
                     THEN [me EXCEPT !.pc = "setup",
                                     !.unclosed = @ \cup {me.engine}]
                     ELSE [me EXCEPT !.pc = "exit", !.out = [raised |-> TRUE,
                                                            value |-> "launch"]]]
    /\ last' = NoReturn
    /\ UNCHANGED <<variant, now, _CACHE, _SCHEDULERS, chains, CACHE, lastSet>>
    /\ UNCHANGED <<dbvars, exports>>

\* _try_browser: new_context, _apply_stealth, new_page,
\* set_extra_http_headers and route, all before the try statement.
_try_browser_setup(t, ok) ==
    /\ thr[t].pc = "setup"
    /\ thr[t].op = "fetch_html"
    /\ thr' = [thr EXCEPT ![t] =
                  IF ok THEN [thr[t] EXCEPT !.pc = "navigate"]
                  ELSE [thr[t] EXCEPT !.pc = "exit",
                                      !.out = [raised |-> TRUE, value |-> "setup"]]]
    /\ last' = NoReturn
    /\ UNCHANGED <<variant, now, _CACHE, _SCHEDULERS, chains, CACHE, lastSet>>
    /\ UNCHANGED <<dbvars, exports>>

\* _try_browser: goto, wait_for_timeout, content and the status inside the
\* try, browser.close() in its finally; then the test of
\* _fetch_with_playwright on what Chromium returned.
_try_browser_navigate(t, ok, html, status) ==
    /\ thr[t].pc = "navigate"
    /\ thr[t].op = "fetch_html"
    /\ LET me == [thr[t] EXCEPT !.unclosed = @ \ {thr[t].engine}]
       IN  thr' = [thr EXCEPT ![t] =
                     IF ~ok
                     THEN [me EXCEPT !.pc = "exit",
                                     !.out = [raised |-> TRUE, value |-> "navigate"]]
                     ELSE IF me.engine = "chromium"
                     THEN IF Blocked(status, html)
                          THEN [me EXCEPT !.pc = "launch", !.engine = "webkit",
                                          !.first = Some([html |-> html,
                                                          status |-> status])]
                          ELSE [me EXCEPT !.pc = "exit",
                                          !.first = Some([html |-> html,
                                                          status |-> status]),
                                          !.out = [raised |-> FALSE, value |-> html]]
                     ELSE [me EXCEPT !.pc = "exit",
                                     !.out = [raised |-> FALSE, value |-> html]]]
    /\ last' = NoReturn
    /\ UNCHANGED <<variant, now, _CACHE, _SCHEDULERS, chains, CACHE, lastSet>>
    /\ UNCHANGED <<dbvars, exports>>

\* The with block of sync_playwright() is left, and fetch_html returns or
\* raises what _fetch_with_playwright did.
_fetch_with_playwright_exit(t) ==
    /\ thr[t].pc = "exit"
    /\ thr[t].op = "fetch_html"
    /\ thr' = [thr EXCEPT ![t] = Idle]
    /\ last' = fetch_html_end(thr[t], thr[t].out.raised, thr[t].out.value)
    /\ UNCHANGED <<variant, now, _CACHE, _SCHEDULERS, chains, CACHE, lastSet>>
    /\ UNCHANGED <<dbvars, exports>>

\* Two threads that fetch the page.
InitFetch16 ==
    /\ Init
    /\ variant = "v16"

NextFetch16 ==
    \/ \E t \in RequestThreads, d \in DriverInputs : fetch_html_call(t, d)
    \/ \E t \in RequestThreads, o \in PrimaryOutcomes : fetch_html_requests(t, o)
    \/ \E t \in RequestThreads, ok \in BOOLEAN : _fetch_with_playwright_enter(t, ok)
    \/ \E t \in RequestThreads, ok \in BOOLEAN : _try_browser_launch(t, ok)
    \/ \E t \in RequestThreads, ok \in BOOLEAN : _try_browser_setup(t, ok)
    \/ \E t \in RequestThreads, ok \in BOOLEAN, h \in PageTexts, st \in PageStatuses :
          _try_browser_navigate(t, ok, h, st)
    \/ \E t \in RequestThreads : _fetch_with_playwright_exit(t)

SpecFetch16 == InitFetch16 /\ [][NextFetch16]_vars

\* ------------------------------------------- v16: the tables of a plaza
\* A document is the sequence of its headings and tables in document order;
\* a tag is named by its position, and two tags are equal, as Tag.__eq__
\* has it, when their name, attributes and contents are.
MaxNodes == 4

Titulo(text) == [name |-> "div", class |-> "titulo-tabla", text |-> text]

Table(class) == [name |-> "table", class |-> class, text |-> ""]

NodeKinds == { Titulo("Rosario"), Titulo("ROSARIO"), Titulo("Bahía Blanca"),
               Table("tabla-cotizaciones"), Table("tabla-resumen") }

Documents == UNION { [1..n -> NodeKinds] : n \in 0..MaxNodes }

TituloInputs == {"Rosario", "Bahía Blanca"}

\* _strip_accents(text).lower()
FoldText(text) ==
    CASE text \in {"Rosario", "ROSARIO"} -> "rosario"
      [] text = "Bahía Blanca" -> "bahia blanca"
      [] OTHER -> text

\* The positions of S in ascending order.
RECURSIVE Ascending(_)
Ascending(S) ==
    IF S = {} THEN <<>>
    ELSE LET m == CHOOSE i \in S : \A j \in S : i <= j
         IN  <<m>> \o Ascending(S \ {m})

IsQuoteTable(node) == node.name = "table" /\ node.class = "tabla-cotizaciones"

\* _find_plaza_tables on such a document: the positions of the tables it
\* returns.
_find_plaza_tables_of(nodes, titulo_text) ==
    LET titles == {i \in 1..Len(nodes) : nodes[i].class = "titulo-tabla"}
        match == {i \in titles : FoldText(nodes[i].text) = FoldText(titulo_text)}
    IN  IF match = {} THEN <<>>
        ELSE LET start == CHOOSE i \in match : \A j \in match : i <= j
                 later == {i \in titles : i > start}
                 end == IF later = {} THEN 0
                        ELSE CHOOSE i \in later : \A j \in later : i <= j
                 \* for sib in start_node.find_all_next(): break at the first
                 \* tag equal to end_node
                 stops == IF end = 0 THEN {}
                          ELSE {j \in (start + 1)..Len(nodes) : nodes[j] = nodes[end]}
                 stop == IF stops = {} THEN Len(nodes) + 1
                         ELSE CHOOSE j \in stops : \A k \in stops : j <= k
                 tables == {j \in (start + 1)..(stop - 1) : IsQuoteTable(nodes[j])}
                 candidates == {j \in (start + 1)..Len(nodes) : IsQuoteTable(nodes[j])}
                 \* tbl.find_previous("div", class_="titulo-tabla") == start_node
                 Previous(j) == CHOOSE i \in titles :
                                   i < j /\ \A k \in titles : k < j => k <= i
                 Mine(j) == nodes[Previous(j)] = nodes[start]
                 limited == {j \in candidates :
                                \A k \in candidates : k <= j => Mine(k)}
             IN  IF tables # {} THEN Ascending(tables)
                 ELSE IF end # 0 THEN Ascending(limited)
                      ELSE Ascending(candidates)

InitLocate ==
    /\ variant = "v16"
    /\ now = 0
    /\ _CACHE = [k \in Keys16 |-> None]
    /\ _SCHEDULERS = [p \in Plazas16 |-> None]
    /\ chains = [c \in ChainIds |-> Unused]
    /\ CACHE = [p \in PLAZA_CODES |-> [items |-> <<>>, fetched_at |-> None]]
    /\ \E nodes \in Documents, titulo_text \in TituloInputs :
          thr = [t \in RequestThreads |->
                   IF t = "r1"
                   THEN [pc |-> "locate", op |-> "_find_plaza_tables",
                         nodes |-> nodes, titulo_text |-> titulo_text]
                   ELSE Idle]
    /\ last = NoReturn
    /\ lastSet = [k \in Keys16 |-> None]
    /\ TB_REF = {}
    /\ GRANO = GranoCodes
    /\ today = Days[1]
    /\ exports = <<>>

\* The call _find_plaza_tables(soup, titulo_text) and its return value.
_find_plaza_tables_call(t) ==
    /\ thr[t].pc = "locate"
    /\ last' = [op |-> "_find_plaza_tables", nodes |-> thr[t].nodes,
                titulo_text |-> thr[t].titulo_text,
                out |-> _find_plaza_tables_of(thr[t].nodes, thr[t].titulo_text)]
    /\ thr' = [thr EXCEPT ![t] = Idle]
    /\ UNCHANGED <<variant, now, _CACHE, _SCHEDULERS, chains, CACHE, lastSet>>
    /\ UNCHANGED <<dbvars, exports>>

NextLocate == _find_plaza_tables_call("r1")

SpecLocate == InitLocate /\ [][NextLocate]_vars

\* ------------------------------------------- v16: the price of a row
\* A row is the sequence of the texts of its cells, as _td_text gives them;
\* the header map gives the 0-based column of "producto" and of "actual"
\* when the header names them.
MaxCols == 4

CellTexts ==
    { <<"s", "/", "c">>, <<"n", "/", "d">>, <<"1">>, <<"2">>, <<>>,
      <<"D", "ó", "l", "a", "r", "e", "s", "/", "t", "n">> }

Rows == UNION { [1..n -> CellTexts] : n \in 2..MaxCols }

HeaderMaps ==
    { <<>>,
      [producto |-> 0],
      [producto |-> 0, actual |-> 1],
      [producto |-> 0, actual |-> 2],
      [producto |-> 1, actual |-> 2],
      [producto |-> 0, actual |-> 3] }

\* txt.lower() in ("s/c", "s / c", "-", "")
ProbeTokens ==
    { <<"s", "/", "c">>, <<"s", " ", "/", " ", "c">>, <<"-">>, <<>> }

\* _strip_accents on the letters of the modelled texts.
StripAccentsText(s) == [i \in 1..Len(s) |-> IF s[i] = "ó" THEN "o" ELSE s[i]]

\* pna in ("producto", "pesos/tn", "dolares/tn", "dólares/tn")
HeadingWords ==
    { <<"p", "r", "o", "d", "u", "c", "t", "o">>,
      <<"p", "e", "s", "o", "s", "/", "t", "n">>,
      <<"d", "o", "l", "a", "r", "e", "s", "/", "t", "n">>,
      <<"d", "ó", "l", "a", "r", "e", "s", "/", "t", "n">> }

\* Lines 371-399 of _parse_table for one data row: no item when the product
\* cell is empty or a heading word; otherwise one item whose price comes
\* from the "actual" column, then, while the price is None, from the probe
\* of columns 1 to 4.
_parse_table_items(header, tds) ==
    LET prod_idx == IF "producto" \in DOMAIN header THEN header.producto ELSE 0
        producto == IF prod_idx < Len(tds) THEN tds[prod_idx + 1] ELSE tds[1]
        pna == LowerText(StripAccentsText(producto))
        mapped == IF "actual" \in DOMAIN header /\ header.actual < Len(tds)
                  THEN _clean_num(tds[header.actual + 1])
                  ELSE None
        hits == {i \in 1..(IF Len(tds) < 5 THEN Len(tds) - 1 ELSE 4) :
                    /\ i # prod_idx
                    /\ \/ _clean_num(tds[i + 1]) # None
                       \/ LowerText(tds[i + 1]) \in ProbeTokens}
        precio == IF mapped # None THEN mapped
                  ELSE IF hits = {} THEN None
                  ELSE _clean_num(tds[(CHOOSE i \in hits : \A j \in hits : i <= j) + 1])
    IN  IF producto = <<>> \/ pna \in HeadingWords
        THEN <<>>
        ELSE <<[producto |-> StripText(producto), precio |-> precio]>>

InitRow ==
    /\ variant = "v16"
    /\ now = 0
    /\ _CACHE = [k \in Keys16 |-> None]
    /\ _SCHEDULERS = [p \in Plazas16 |-> None]
    /\ chains = [c \in ChainIds |-> Unused]
    /\ CACHE = [p \in PLAZA_CODES |-> [items |-> <<>>, fetched_at |-> None]]
    /\ \E header \in HeaderMaps, tds \in Rows :
          thr = [t \in RequestThreads |->
                   IF t = "r1"
                   THEN [pc |-> "row", op |-> "_parse_table",
                         header |-> header, tds |-> tds]
                   ELSE Idle]
    /\ last = NoReturn
    /\ lastSet = [k \in Keys16 |-> None]
    /\ TB_REF = {}
    /\ GRANO = GranoCodes
    /\ today = Days[1]
    /\ exports = <<>>

\* One pass of the row loop of _parse_table over a data row (a row of two
\* cells or more that is neither of a heading class nor the header row) and
\* the items it appends.
_parse_table_row(t) ==
    /\ thr[t].pc = "row"
    /\ last' = [op |-> "_parse_table", header |-> thr[t].header,
                tds |-> thr[t].tds,
                items |-> _parse_table_items(thr[t].header, thr[t].tds)]
    /\ thr' = [thr EXCEPT ![t] = Idle]
    /\ UNCHANGED <<variant, now, _CACHE, _SCHEDULERS, chains, CACHE, lastSet>>
    /\ UNCHANGED <<dbvars, exports>>

NextRow == _parse_table_row("r1")

SpecRow == InitRow /\ [][NextRow]_vars

\* Runs that race for the key of Rosario's base products while the source
\* changes once: it publishes document 1 until the clock first advances and
\* document 2 from then on, so the list of a run tells when it read.
Published(t) == IF t = 0 THEN 1 ELSE 2

InitRace ==
    /\ Init
    /\ variant = "v16"

NextRace ==
    \/ \E t \in RequestThreads : cotizaciones_call(t, "rosario", 1)
    \/ \E t \in RequestThreads, o \in FetchOutcomes :
          cotizaciones_scrape(t, o, Published(now))
    \/ \E t \in RequestThreads : cotizaciones_set(t)
    \/ start_automation("rosario", 1)
    \/ \E c \in ChainIds : timer_fire(c)
    \/ \E c \in ChainIds, o \in FetchOutcomes : job_scrape(c, o, Published(now))
    \/ \E c \in ChainIds : job_set1(c)
    \/ \E c \in ChainIds : job_set0(c)
    \/ \E c \in ChainIds : job_arm(c)
    \/ Tick

SpecRace == InitRace /\ [][NextRace]_vars

\* ------------------------------------------------------------- properties
\* Age in seconds of a v01 cache entry at time t.
Age01(entry, t) == t - fromisoformat(entry.fetched_at[1])[1]

FailedQuery01 == last.op = "api_cotizaciones" /\ last.step = "fail"

FailedQuery16 == last.op = "cotizaciones" /\ last.step = "fail"

ServedFromCache(entry) ==
    /\ ~last.raised
    /\ last.resp.items = entry.items
    /\ "cached" \in DOMAIN last.resp
    /\ last.resp.cached = TRUE
    /\ "error" \in DOMAIN last.resp
    /\ last.resp.error # ""

\* C1 as stated: when the fetch fails and the cache holds an entry for the
\* section whose age is within the staleness ceiling of the request, the
\* handler returns the cached items with cached = true and an error text.
C1_AnyEntryServed ==
    (FailedQuery01 /\ last.pre.fetched_at # None
        /\ Age01(last.pre, last.at) <= last.max_age_min * 60)
    => ServedFromCache(last.pre)

\* C1 amended: the same, for an entry that holds a non-empty list.
C1_NonEmptyEntryServed ==
    (FailedQuery01 /\ last.pre.fetched_at # None /\ last.pre.items # <<>>
        /\ Age01(last.pre, last.at) <= last.max_age_min * 60)
    => ServedFromCache(last.pre)

\* A failed query answered from an entry whose age equals the ceiling.
C1_Witness ==
    /\ FailedQuery01
    /\ last.pre.fetched_at # None
    /\ last.pre.items # <<>>
    /\ last.max_age_min > 0
    /\ Age01(last.pre, last.at) = last.max_age_min * 60
    /\ ServedFromCache(last.pre)

EmptyWithError ==
    /\ ~last.raised
    /\ last.resp.items = <<>>
    /\ "error" \in DOMAIN last.resp
    /\ last.resp.error # ""

\* C2: when the fetch fails and the cache holds no entry for the section,
\* the response has an empty item list and a non-empty error text.
C2_NoEntryEmptyWithError ==
    /\ (FailedQuery16 /\ last.pre = None) => EmptyWithError
    /\ (FailedQuery01 /\ last.pre.fetched_at = None) => EmptyWithError

C2_Witness ==
    /\ FailedQuery16
    /\ last.pre = None
    /\ last.resp.error = ErrorText("http")

\* C3: every return of the query handler is a response, never an exception,
\* with a list of items, the section and the source URL.
C3_AlwaysWellFormed ==
    last.op \in {"cotizaciones", "api_cotizaciones"} =>
        /\ ~last.raised
        /\ {"items", "plaza", "source_url"} \subseteq DOMAIN last.resp
        /\ DOMAIN last.resp.items = 1..Len(last.resp.items)
        /\ last.resp.plaza = last.plaza
        /\ last.resp.source_url = SOURCE_URL

\* A failure that is neither a timeout nor an HTTP error, answered.
C3_Witness ==
    /\ FailedQuery16
    /\ ~last.raised
    /\ last.resp.error = ErrorText("other")

\* C4 as stated: a query for a key whose entry is younger than _CACHE_TTL
\* is answered from the cache with the list last written under the key and
\* cached = true, and the handler goes on to fetch only when the key has no
\* entry or its entry is older than _CACHE_TTL.
C4_FetchOnlyWhenOlderThanTTL ==
    [][variant = "v16" =>
         /\ \A t \in RequestThreads :
               (thr[t].pc = "idle" /\ thr'[t].pc = "scrape") =>
                  LET key == cache_key(thr'[t].plaza, thr'[t].only_base)
                  IN  \/ _CACHE[key] = None
                      \/ now - _CACHE[key][1][1] > _CACHE_TTL
         /\ (last'.op = "cotizaciones" /\ last'.step = "hit") =>
               LET key == cache_key(last'.plaza, last'.only_base)
               IN  /\ lastSet[key] # None
                   /\ last'.resp.items = lastSet[key][1][2]
                   /\ last'.resp.cached = TRUE
                   /\ UNCHANGED thr]_vars

\* C5 as stated: _cache_get returns the stored list exactly when the key has
\* an entry whose age is at most _CACHE_TTL, an age equal to it included.
C5_GetBoundaryInclusive ==
    variant = "v16" =>
        \A key \in Keys16 :
            LET pack == _CACHE[key]
                got == _cache_get(_CACHE, key, now)
            IN  IF pack # None /\ now - pack[1][1] <= _CACHE_TTL
                THEN got = Some(pack[1][2])
                ELSE got = None

\* A max_age_min that no entry of a run outlives.
Unbounded == (MaxTicks + 1) * CACHE_MAX_AGE_MIN

\* C6: every cache entry is exactly the list of the latest set on its key,
\* stamped with the time of that set; a key never set has no entry; a read
\* with an unbounded age returns the list of the latest set.
C6_EntryIsLastSet ==
    /\ variant = "v16" => \A key \in Keys16 : _CACHE[key] = lastSet[key]
    /\ variant = "v01" =>
          \A p \in PLAZA_CODES :
             IF lastSet[p] = None
             THEN CACHE[p] = [items |-> <<>>, fetched_at |-> None]
             ELSE /\ CACHE[p].items = lastSet[p][1][2]
                  /\ CACHE[p].fetched_at # None
                  /\ fromisoformat(CACHE[p].fetched_at[1])
                        = Some(lastSet[p][1][1])
                  /\ api_cotizaciones_except(CACHE, p, now, Unbounded, 0,
                         "timeout").resp.items = lastSet[p][1][2]

\* A set that replaced a different non-empty list while the other key of the
\* plaza holds an entry.
C6_Witness ==
    /\ last.op = "cotizaciones"
    /\ last.step = "fresh"
    /\ last.pre # None
    /\ last.pre[1][2] # <<>>
    /\ last.resp.items # <<>>
    /\ last.resp.items # last.pre[1][2]
    /\ \E key \in Keys16 :
          key # cache_key(last.plaza, last.only_base) /\ _CACHE[key] # None

\* C7: the caches change only in the set step of a run whose fetch and parse
\* succeeded; a failed run and a query answered from the cache leave every
\* entry as it was.
C7_OnlySuccessfulRunsWrite ==
    [][/\ _CACHE' # _CACHE =>
             \/ \E t \in RequestThreads :
                   /\ thr[t].pc = "set"
                   /\ thr[t].op = "cotizaciones"
                   /\ thr[t].fetch = "ok"
                   /\ thr'[t].pc = "idle"
             \/ \E c \in ChainIds :
                   /\ chains[c].pc \in {"set1", "set0"}
                   /\ chains[c].fetch = "ok"
                   /\ chains'[c].pc # chains[c].pc
       /\ CACHE' # CACHE =>
             \E t \in RequestThreads :
                /\ thr[t].pc = "set"
                /\ thr[t].op \in {"api_cotizaciones", "api_csv"}
                /\ thr[t].fetch = "ok"
                /\ thr'[t].pc = "idle"
       /\ (last'.op = "cotizaciones" /\ last'.step \in {"hit", "fail"})
             => UNCHANGED <<_CACHE, CACHE>>
       /\ (last'.op \in {"api_cotizaciones", "api_csv"} /\ last'.step = "fail")
             => UNCHANGED <<_CACHE, CACHE>>]_vars

\* A query fails over an existing entry after a scheduled run has failed.
C7_Witness ==
    /\ FailedQuery16
    /\ last.pre # None
    /\ _CACHE[cache_key(last.plaza, last.only_base)] = last.pre
    /\ \E c \in ChainIds : chains[c].pc = "arm" /\ ~chains[c].ok

\* C8: the entry a query reads, while runs write the same key, is whole: its
\* timestamp and its list are those of one set, the latest on the key.
C8_ReaderSeesWholeEntry ==
    /\ (last.op = "cotizaciones" /\ last.step = "hit") =>
          /\ last.pre = lastSet[cache_key(last.plaza, last.only_base)]
          /\ last.resp.items = last.pre[1][2]
    /\ (FailedQuery01 /\ "cached" \in DOMAIN last.resp) =>
          /\ lastSet[last.plaza] # None
          /\ last.pre.items = lastSet[last.plaza][1][2]
          /\ fromisoformat(last.pre.fetched_at[1])
                = Some(lastSet[last.plaza][1][1])
          /\ last.resp.items = last.pre.items

\* A query answered from the cache while a scheduled run is about to write
\* another list under the same key.
C8_Witness ==
    /\ last.op = "cotizaciones"
    /\ last.step = "hit"
    /\ \E c \in ChainIds :
          /\ chains[c].pc = "set1"
          /\ cache_key(chains[c].plaza, 1) = cache_key(last.plaza, last.only_base)
          /\ DropFutures(chains[c].items) # last.resp.items

\* C9 as stated: a list served from the cache to a query that asked for the
\* base products holds no quote that the base filter drops.
C9_ServedListIsFiltered ==
    /\ (last.op = "cotizaciones" /\ last.step = "hit" /\ last.only_base = 1) =>
          \A i \in 1..Len(last.resp.items) :
             ~_looks_like_future(last.resp.items[i].producto)
    /\ (FailedQuery01 /\ "cached" \in DOMAIN last.resp /\ last.only_base) =>
          \A i \in 1..Len(last.resp.items) :
             normalize_product_name(last.resp.items[i].producto)
                \in PRODUCTS_BASE

\* Two consecutive returns of the export, both successful, for the same
\* plaza, rows and date, with the store untouched in between.
RepeatedExport ==
    /\ Len(exports) = 2
    /\ exports[1].status = 200
    /\ exports[2].status = 200
    /\ exports[1].plaza = exports[2].plaza
    /\ exports[1].rows = exports[2].rows
    /\ exports[1].fechavig = exports[2].fechavig
    /\ exports[2].before = exports[1].after

\* C10 as stated: the second of two exports of the same input inserts
\* nothing, counts as already present what the first call inserted, and
\* leaves the store as the first call left it.
C10_SecondCountsFirstInserted ==
    RepeatedExport =>
        /\ exports[2].resp.exported = 0
        /\ exports[2].resp.already = exports[1].resp.exported
        /\ exports[2].after = exports[1].after

\* C10 amended: the second call counts as already present what the first
\* call inserted and what the first call itself found already present.
C10_SecondCountsFirstInsertedAndPresent ==
    RepeatedExport =>
        /\ exports[2].resp.exported = 0
        /\ exports[2].resp.already =
              exports[1].resp.exported + exports[1].resp.already
        /\ exports[2].resp.skipped = exports[1].resp.skipped
        /\ exports[2].after = exports[1].after
        /\ TB_REF = exports[1].after

\* A repeated export whose first call inserted a row and met a second row
\* of the same UVALUE.
C10_Witness ==
    /\ RepeatedExport
    /\ last.op = "export_oracle"
    /\ exports[1].resp.exported > 0
    /\ exports[1].resp.already > 0
    /\ exports[1].resp.skipped > 0
    /\ exports[2].resp.already > exports[1].resp.exported

\* The quotes of a list that cannot become a store row: no price, a price
\* that is not positive, or a product outside _GRAIN_MAP.
NotExportable(items) ==
    {i \in 1..Len(items) :
        \/ items[i].precio = None
        \/ items[i].precio[1] <= 0
        \/ _GRAIN_MAP(items[i].producto) = 0}

\* The quotes whose product has a code that the table GRANO lacks.
NoGrain(items) ==
    {i \in 1..Len(items) :
        /\ i \notin NotExportable(items)
        /\ ~_grain_exists(GRANO, _GRAIN_MAP(items[i].producto))}

\* C11 as stated: a successful export adds rows only for quotes with a
\* positive price and a mapped product, and its skipped count is the number
\* of the other quotes (with those whose code GRANO lacks, which C12 counts).
C11_SkippedCountsEveryOtherQuote ==
    (last.op = "export_oracle" /\ last.status = 200) =>
        /\ \A r \in last.after \ last.before :
              \E i \in 1..Len(last.items) :
                 /\ i \notin NotExportable(last.items)
                 /\ r.GRANO = _GRAIN_MAP(last.items[i].producto)
                 /\ r.PRECIOREF = round2(last.items[i].precio[1])
        /\ last.resp.skipped = Cardinality(NotExportable(last.items))
                                + Cardinality(NoGrain(last.items))

\* C12: one turn of the export loop (the look-up in GRANO and, when GRANO
\* has the code, the MERGE that follows it) leaves the committed rows and the
\* rows already added by the call as they are, and does exactly one of: count
\* the row as already present when its UVALUE is in the store; add it and
\* count it as inserted when the UVALUE is new and GRANO has its code; count
\* it as skipped, adding nothing, when GRANO lacks the code.  No step of the
\* service removes or changes a committed row.
C12_UpsertRowEffect ==
    [][/\ TB_REF \subseteq TB_REF'
       /\ \A t \in RequestThreads :
             (thr[t].pc = "rows" /\ thr'[t].pc = "merge") =>
                /\ _GRAIN_MAP(thr[t].rows[thr[t].i].producto) \in GRANO
                /\ thr'[t] = [thr[t] EXCEPT !.pc = "merge"]
                /\ TB_REF' = TB_REF
       /\ \A t \in RequestThreads :
             (thr[t].pc \in {"rows", "merge"} /\ thr'[t].pc = "rows"
                 /\ thr'[t].i = thr[t].i + 1) =>
                LET me == thr[t]
                    new == thr'[t]
                    it == me.rows[me.i]
                    grano == _GRAIN_MAP(it.producto)
                    key == _uvalue16(grano, siglo, cosecha, me.pizarra,
                                     me.fechavig, None, None,
                                     round2(it.precio[1]))
                    visible == TB_REF \cup me.pending
                    counters(rec) ==
                        <<rec.inserted, rec.already_present, rec.skipped>>
                IN  /\ TB_REF' = TB_REF
                    /\ me.pending \subseteq new.pending
                    /\ IF grano \notin GRANO
                       THEN /\ new.pending = me.pending
                            /\ counters(new) = <<me.inserted,
                                                 me.already_present,
                                                 me.skipped + 1>>
                       ELSE IF \E r \in visible : r.UVALUE = key
                       THEN /\ new.pending = me.pending
                            /\ counters(new) = <<me.inserted,
                                                 me.already_present + 1,
                                                 me.skipped>>
                       ELSE /\ \E r \in new.pending \ me.pending :
                                  /\ r.UVALUE = key
                                  /\ r.GRANO = grano
                                  /\ new.pending = me.pending \cup {r}
                            /\ counters(new) = <<me.inserted + 1,
                                                 me.already_present,
                                                 me.skipped>>]_vars

\* An export over a store that holds rows has inserted a row, found a row
\* present and skipped a row whose code GRANO lacks.
C12_Witness ==
    \E t \in RequestThreads :
       /\ thr[t].pc = "rows"
       /\ TB_REF # {}
       /\ thr[t].pending # {}
       /\ thr[t].already_present > 0
       /\ thr[t].i > 1
       /\ thr[t].i <= Len(thr[t].rows) + 1
       /\ \E j \in 1..(thr[t].i - 1) :
             /\ _GRAIN_MAP(thr[t].rows[j].producto) # 0
             /\ _GRAIN_MAP(thr[t].rows[j].producto) \notin GRANO

\* C13: the store changes only in the commit that ends a successful call,
\* by all the rows of the call at once; a call that meets a store error
\* returns a failure with the cause, leaves the store as it was and is over.
C13_BatchIsTransactional ==
    [][/\ TB_REF' # TB_REF =>
             \E t \in RequestThreads :
                /\ thr[t].pc = "rows"
                /\ thr[t].i > Len(thr[t].rows)
                /\ TB_REF' = TB_REF \cup thr[t].pending
                /\ thr'[t] = Idle
                /\ last'.op = "export_oracle"
                /\ last'.status = 200
                /\ last'.resp.exported = Cardinality(thr[t].pending)
       /\ (last'.op = "export_oracle" /\ last'.status = 500) =>
             /\ TB_REF' = TB_REF
             /\ last'.resp.ok = FALSE
             /\ last'.resp.error # ""
             /\ \A t \in RequestThreads :
                   thr[t].pc \in {"connect", "rows", "merge"}
                      => thr'[t] = Idle]_vars

\* A call has failed after it had added rows, and none of them is stored.
C13_Witness ==
    /\ last.op = "export_oracle"
    /\ last.status = 500
    /\ last.uncommitted # {}
    /\ last.uncommitted \cap TB_REF = {}
    /\ last.after = last.before

\* The latest time of the clock.
Horizon == MaxTicks * TickSeconds

\* C14: a schedule runs at once; a run that succeeds has written both keys
\* of its plaza; every run, failed or not, ends with its timer armed for
\* the same plaza and interval; and an armed timer that falls due is
\* followed by the next run, unless a new schedule of the plaza, which runs
\* at once, has cancelled it.
C14_EveryRunRearms ==
    /\ [](\A c \in ChainIds :
            (chains[c].pc = "arm" /\ chains[c].ok) =>
               /\ lastSet[<<chains[c].plaza, 1>>] # None
               /\ lastSet[<<chains[c].plaza, 0>>] # None)
    /\ [][\A c \in ChainIds :
            /\ (chains[c].pc = "unused" /\ chains'[c].pc # "unused")
                  => chains'[c].pc = "scrape"
            /\ (chains[c].pc = "arm" /\ chains'[c].pc # "arm") =>
                  /\ chains'[c].pc = "armed"
                  /\ chains'[c].plaza = chains[c].plaza
                  /\ chains'[c].interval_min = chains[c].interval_min
                  /\ chains'[c].due = now + chains[c].interval_min * 60
            /\ (chains[c].pc = "armed" /\ chains'[c].pc = "cancelled") =>
                  \E d \in ChainIds :
                     /\ chains[d].pc = "unused"
                     /\ chains'[d].pc = "scrape"
                     /\ chains'[d].plaza = chains[c].plaza]_vars
    /\ \A c \in ChainIds :
          /\ (chains[c].pc = "scrape") ~> (chains[c].pc = "armed")
          /\ (chains[c].pc = "armed" /\ chains[c].due <= Horizon)
                ~> (chains[c].pc \in {"scrape", "cancelled"})

\* A run started by a timer has failed and is about to arm the next timer.
C14_Witness ==
    \E c \in ChainIds :
       /\ chains[c].pc = "arm"
       /\ ~chains[c].ok
       /\ _SCHEDULERS[chains[c].plaza] = Some(c)

\* A run of _schedule_job for chain c is in progress.
Running(c) == chains[c].pc \in {"scrape", "set1", "set0", "arm"}

\* C15: no two runs of _schedule_job for the same plaza are in progress at
\* the same time.
C15_NoTwoRunsOfOneSection ==
    \A c \in ChainIds, d \in ChainIds :
       (c # d /\ Running(c) /\ Running(d)) => chains[c].plaza # chains[d].plaza

\* The pair (canonical product, currency) of a row.
CanonicalPair(it) ==
    << [i \in 1..Len(it.producto) |->
          IF it.producto[i] = "Maíz" THEN "Maiz" ELSE it.producto[i]],
       it.moneda >>

\* The rows of the input that pass the base filter of the call.
FilteredInput ==
    LET InBase(it) == CanonicalPair(it)[1] \in PRODUCTS_BASE
    IN  IF last.only_base THEN SelectSeq(last.items, InBase) ELSE last.items

\* C16: the list returned by dedupe_and_sort has no two rows with the same
\* (canonical product, currency), and its pairs are exactly the pairs of
\* the filtered input.
C16_OnePerPair ==
    last.op = "dedupe_and_sort" =>
       /\ \A i \in 1..Len(last.out), j \in 1..Len(last.out) :
             i # j => CanonicalPair(last.out[i]) # CanonicalPair(last.out[j])
       /\ {CanonicalPair(last.out[i]) : i \in 1..Len(last.out)}
             = {CanonicalPair(FilteredInput[i]) : i \in 1..Len(FilteredInput)}

\* Rows with differently written names of one product collided, and another
\* pair came through next to them.
C16_Witness ==
    /\ last.op = "dedupe_and_sort"
    /\ Len(last.out) = 2
    /\ Len(FilteredInput) = 3
    /\ \E i \in 1..3, j \in 1..3 :
          /\ FilteredInput[i].producto # FilteredInput[j].producto
          /\ CanonicalPair(FilteredInput[i]) = CanonicalPair(FilteredInput[j])

\* The least element of a non-empty set of positions.
First(S) == CHOOSE i \in S : \A j \in S : i <= j

\* C17: the row returned for a pair is the first row of the filtered input
\* with that pair that has a price, or, when none has, the first row of the
\* pair.
C17_FirstPricedRowSurvives ==
    last.op = "dedupe_and_sort" =>
       \A k \in 1..Len(last.out) :
          LET same == {i \in 1..Len(FilteredInput) :
                          CanonicalPair(FilteredInput[i]) = CanonicalPair(last.out[k])}
              priced == {i \in same : FilteredInput[i].precio # None}
          IN  /\ same # {}
              /\ last.out[k] = FilteredInput[First(IF priced # {} THEN priced ELSE same)]

\* A row without price was followed by two rows of its pair with different
\* prices.
C17_Witness ==
    /\ last.op = "dedupe_and_sort"
    /\ Len(FilteredInput) = 3
    /\ Len(last.out) = 1
    /\ FilteredInput[1].precio = None
    /\ FilteredInput[2].precio # None
    /\ FilteredInput[3].precio # None
    /\ FilteredInput[2].precio # FilteredInput[3].precio

\* The place of a row in the stated order: the products of PRODUCT_ORDER in
\* that order, then the other products alphabetically, and for one product
\* ARS before USD.
StatedOrderKey(it) ==
    LET prod == CanonicalPair(it)[1]
    IN  << IF IndexOf(PRODUCT_ORDER, prod) = 0 THEN 999
           ELSE IndexOf(PRODUCT_ORDER, prod) - 1,
           IndexOf(AlphaOrder, prod),
           IF it.moneda = "ARS" THEN 0 ELSE 1 >>

\* C18: the returned rows are in the stated order.
C18_OrderIsCanonical ==
    last.op = "dedupe_and_sort" =>
       \A i \in 1..Len(last.out), j \in 1..Len(last.out) :
          i < j => KeyLess(StatedOrderKey(last.out[i]), StatedOrderKey(last.out[j]))

\* C19: the list that cotizaciones has built for a request with
\* only_base = 1, and is about to store and return, holds only products of
\* the base set, none of them a future.
C19_BaseOnlyReturnsBaseSet ==
    \A t \in RequestThreads :
       (thr[t].pc = "set" /\ thr[t].op = "cotizaciones" /\ thr[t].only_base = 1) =>
          \A i \in 1..Len(thr[t].items) :
             /\ thr[t].items[i].producto \in PRODUCTS_BASE
             /\ ~_looks_like_future(thr[t].items[i].producto)

\* C20: a document without the heading of the plaza is not an error.  The
\* query that fetched it answers with an empty list and no error field, and
\* a query answers with an error only when its fetch has failed.
C20_AbsentSectionIsEmptyNotError ==
    /\ (last.op = "cotizaciones" /\ last.step = "fresh" /\ ~last.found) =>
          /\ last.fetch = "ok"
          /\ ~last.raised
          /\ last.resp.items = <<>>
          /\ "error" \notin DOMAIN last.resp
    /\ FailedQuery16 => last.fetch # "ok"

\* The answer to a query whose document had no Rosario heading.
C20_Witness ==
    /\ last.op = "cotizaciones"
    /\ last.step = "fresh"
    /\ last.plaza = "rosario"
    /\ ~last.found
    /\ last.resp.items = <<>>

\* The price the contract gives to a text: null for a not-quoted token,
\* else the number that is left after every character but digits, comma,
\* period and minus is removed and the separators are settled, null when
\* that is no number.
StatedPrice(text) ==
    LET kept == KeepNumeric(text)
        settled == IF Has(kept, ",") /\ Has(kept, ".")
                   THEN CommaToPeriod(RemovePeriods(kept))
                   ELSE IF Has(kept, ",") THEN CommaToPeriod(kept) ELSE kept
    IN  IF LowerText(text) \in { <<"s", "/", "c">>, <<"s", "c">>, <<"-">>, <<>> }
        THEN None
        ELSE float(settled)

\* C21: _clean_num returns for every text the price the contract gives it,
\* null or a number; "480.000,00" gives 480000.0, "1.234,56" gives 1234.56
\* and "0,00" gives 0.0.
C21_PriceOfText ==
    last.op = "_clean_num" =>
       /\ last.out = StatedPrice(last.val)
       /\ last.out = None \/ (Len(last.out) = 1 /\ last.out[1].num \in Int)
       /\ last.val = <<"4", "8", "0", ".", "0", "0", "0", ",", "0", "0">>
             => last.out = Some([num |-> 480000, exp |-> 0])
       /\ last.val = <<"1", ".", "2", "3", "4", ",", "5", "6">>
             => last.out = Some([num |-> 123456, exp |-> 2])
       /\ last.val = <<"0", ",", "0", "0">>
             => last.out = Some([num |-> 0, exp |-> 0])

\* The text "480.000,00" has been read as 480000.0.
C21_Witness ==
    /\ last.op = "_clean_num"
    /\ last.val = <<"4", "8", "0", ".", "0", "0", "0", ",", "0", "0">>
    /\ last.out = Some([num |-> 480000, exp |-> 0])

\* C22: a call of read_site_html makes at most three attempts; it returns
\* the text of its first successful attempt; it has slept once after each
\* failed attempt but the third, each time longer than before; and after
\* three failures it raises one error, that of the third attempt.
C22_ThreeAttemptsThenLastError ==
    /\ \A t \in RequestThreads :
          thr[t].pc \in {"attempt", "sleep"} /\ thr[t].op = "read_site_html"
             => thr[t].i < 3
    /\ last.op = "read_site_html" =>
          /\ Len(last.causes) <= 3
          /\ \A k \in 1..Len(last.causes) : last.causes[k] # "ok"
          /\ \A k \in 1..Len(last.slept) :
                last.slept[k] = Float(Power(16, k - 1), k - 1)
          /\ \A k \in 1..(Len(last.slept) - 1) :
                last.slept[k].num * Power(10, last.slept[k + 1].exp)
                   < last.slept[k + 1].num * Power(10, last.slept[k].exp)
          /\ IF last.raised
             THEN /\ Len(last.causes) = 3
                  /\ Len(last.slept) = 2
                  /\ last.exc = last.causes[3]
             ELSE /\ Len(last.causes) <= 2
                  /\ Len(last.slept) = Len(last.causes)
                  /\ last.text \in DocIds01

\* Three attempts have failed with different causes and the last one is
\* raised.
C22_Witness ==
    /\ last.op = "read_site_html"
    /\ last.raised
    /\ last.causes = <<"timeout", "http", "other">>
    /\ last.exc = "other"
    /\ last.slept = <<[num |-> 1, exp |-> 0], [num |-> 16, exp |-> 1]>>

\* The fetch may go to the browser: the direct request was refused with 403
\* or 429 in mode auto, or the driver is set to playwright.
MayEscalate(driver, primary) ==
    \/ driver = "auto" /\ primary \in {Some("http403"), Some("http429")}
    \/ driver = "playwright"

BrowserStages == {"playwright", "launch", "setup", "navigate", "exit"}

\* C23: fetch_html goes on to the browser exactly when the direct request
\* was refused with 403 or 429 in mode auto or the browser is forced.  A
\* direct request that succeeds returns its text, and every other failure
\* of it is raised, in both cases with no browser tried.
C23_EscalatesOnlyWhenBlocked ==
    /\ \A t \in RequestThreads :
          (thr[t].pc # "idle" /\ thr[t].op = "fetch_html") =>
             /\ thr[t].pc \in BrowserStages
                   => MayEscalate(thr[t].driver, thr[t].primary)
             /\ thr[t].pc = "requests" => thr[t].tried = <<>>
    /\ last.op = "fetch_html" =>
          IF MayEscalate(last.driver, last.primary)
          THEN IF last.raised
               THEN last.value \in {"driver", "launch", "setup", "navigate"}
               ELSE last.value \in PageTexts /\ last.tried # <<>>
          ELSE /\ last.tried = <<>>
               /\ last.primary # None
               /\ IF last.primary = Some("ok")
                  THEN ~last.raised /\ last.value = "<html>cotizaciones</html>"
                  ELSE last.raised /\ last.primary = Some(last.value)

\* A request refused with 429 in mode auto was answered by Chromium.
C23_Witness ==
    /\ last.op = "fetch_html"
    /\ last.driver = "auto"
    /\ last.primary = Some("http429")
    /\ last.tried = <<"chromium">>
    /\ ~last.raised

\* What the first engine returned shows a refusal: status 403, or a page
\* whose text says so.
FirstEngineBlocked(first) ==
    \/ first.status = 403
    \/ first.html \in {"<html>Acceso denegado</html>", "<html>403 Forbidden</html>"}

Count(seq, x) == Cardinality({i \in 1..Len(seq) : seq[i] = x})

\* C24: in one fetch WebKit is tried at most once and only after Chromium;
\* it is tried when Chromium returned a refusal, and then the fetch ends
\* with what WebKit did; when Chromium returned a page that is no refusal
\* that page is the result and WebKit is not tried.
C24_SecondEngineOnceWhenBlocked ==
    /\ \A t \in RequestThreads :
          (thr[t].pc \in BrowserStages /\ thr[t].op = "fetch_html") =>
             /\ Count(thr[t].tried, "webkit") <= 1
             /\ Count(thr[t].tried, "chromium") <= 1
             /\ thr[t].engine = "webkit" =>
                   thr[t].first # None /\ FirstEngineBlocked(thr[t].first[1])
    /\ (last.op = "fetch_html" /\ last.tried # <<>>) =>
          /\ last.tried \in { <<"chromium">>, <<"chromium", "webkit">> }
          /\ last.first # None =>
                IF FirstEngineBlocked(last.first[1])
                THEN last.tried = <<"chromium", "webkit">>
                ELSE /\ last.tried = <<"chromium">>
                     /\ ~last.raised
                     /\ last.value = last.first[1].html
          /\ last.first = None => last.tried = <<"chromium">> /\ last.raised

\* Chromium got status 200 with the refusal text, and WebKit the page.
C24_Witness ==
    /\ last.op = "fetch_html"
    /\ last.tried = <<"chromium", "webkit">>
    /\ last.first = Some([html |-> "<html>Acceso denegado</html>", status |-> 200])
    /\ ~last.raised
    /\ last.value = "<html>cotizaciones</html>"

\* C25: once a call of _try_browser has returned or raised, and once
\* fetch_html has, close() has been called on every browser that was
\* launched.
C25_LaunchedBrowsersAreClosed ==
    /\ \A t \in RequestThreads :
          (thr[t].pc \in {"launch", "exit"} /\ thr[t].op = "fetch_html")
             => thr[t].unclosed = {}
    /\ last.op = "fetch_html" => last.unclosed = {}

\* The quote tables of a section: those after the first heading whose
\* folded text is that of the label and before the next heading.
SectionTables(nodes, label) ==
    LET heads == {i \in 1..Len(nodes) : nodes[i].class = "titulo-tabla"}
        match == {i \in heads : FoldText(nodes[i].text) = FoldText(label)}
    IN  IF match = {} THEN {}
        ELSE LET start == CHOOSE i \in match : \A j \in match : i <= j
             IN  {j \in (start + 1)..Len(nodes) :
                     /\ IsQuoteTable(nodes[j])
                     /\ \A h \in heads : ~(start < h /\ h < j)}

\* C26: _find_plaza_tables returns the quote tables of the section, all of
\* them and no other, in document order.
C26_ExactlyTheSectionTables ==
    last.op = "_find_plaza_tables" =>
       /\ {last.out[i] : i \in 1..Len(last.out)}
             = SectionTables(last.nodes, last.titulo_text)
       /\ \A i \in 1..Len(last.out), j \in 1..Len(last.out) :
             i < j => last.out[i] < last.out[j]

\* C27: for every row that yields an item, when the header maps the
\* "actual" column and the row has that cell, the price of the item is the
\* parse of that cell and of no other; when the header maps no "actual"
\* column, the price is the parse of the first cell among columns 1 to 4,
\* the product column left out, that is a number or a not-quoted token, and
\* null when there is none.
C27_MappedColumnAlone ==
    (last.op = "_parse_table" /\ last.items # <<>>) =>
       LET prod_idx == IF "producto" \in DOMAIN last.header
                       THEN last.header.producto ELSE 0
           precio == last.items[1].precio
           Stops(i) == \/ _clean_num(last.tds[i + 1]) # None
                       \/ LowerText(last.tds[i + 1]) \in ProbeTokens
           probed == {i \in 1..4 : i < Len(last.tds) /\ i # prod_idx /\ Stops(i)}
       IN  IF "actual" \in DOMAIN last.header
           THEN last.header.actual < Len(last.tds)
                   => precio = _clean_num(last.tds[last.header.actual + 1])
           ELSE IF probed = {} THEN precio = None
                ELSE precio =
                        _clean_num(last.tds[(CHOOSE i \in probed :
                                               \A j \in probed : i <= j) + 1])

\* C28: a plaza has at most one timer waiting to fire, and _SCHEDULERS
\* holds it.
C28_AtMostOnePendingTimer ==
    \A p \in Plazas16 :
       LET pending == {c \in ChainIds : chains[c].pc = "armed" /\ chains[c].plaza = p}
       IN  /\ Cardinality(pending) <= 1
           /\ \A c \in pending : _SCHEDULERS[p] = Some(c)

\* The list of document d as the key of the base products holds it.
BaseListOf(d) == DropFutures(Docs16[d].rosario)

\* C29: the entry of a key never goes back from the list of the later
\* document to the list of the earlier one, and its time never decreases.
C29_CacheNeverRegresses ==
    [][\A key \in Keys16 :
          (_CACHE[key] # None /\ _CACHE'[key] # _CACHE[key]) =>
             /\ _CACHE'[key] # None
             /\ _CACHE'[key][1][1] >= _CACHE[key][1][1]
             /\ ~(/\ key[2] = 1
                  /\ _CACHE[key][1][2] = BaseListOf(2)
                  /\ _CACHE'[key][1][2] = BaseListOf(1))]_vars

\* No quote of the list has a positive price.
NothingToExport(items) ==
    \A i \in 1..Len(items) : items[i].precio = None \/ items[i].precio[1] <= 0

\* C30: an export whose quotes, after a failed fetch or with no positive
\* price among them, give nothing to export ends with status 400 and a
\* failure body and leaves TB_REF as it was; a connection is opened only by
\* an export that has a quote with a positive price.
C30_NothingToExportFailsEarly ==
    /\ \A t \in RequestThreads :
          (thr[t].pc \in {"connect", "rows", "merge"}
                /\ thr[t].op = "export_oracle")
             => ~NothingToExport(thr[t].items)
    /\ (last.op = "export_oracle" /\ NothingToExport(last.items)) =>
          /\ last.status = 400
          /\ last.resp.ok = FALSE
          /\ last.resp.error = "sin_datos"
          /\ last.after = last.before
          /\ TB_REF = last.before

\* Of the latest two exports, one found the fetch failing and the other
\* quotes without a positive price; both ended with status 400 while the
\* store held rows of an earlier export.
C30_Witness ==
    /\ Len(exports) = 2
    /\ exports[1].status = 400
    /\ exports[1].items = <<>>
    /\ exports[2].status = 400
    /\ exports[2].items # <<>>
    /\ TB_REF # {}
    /\ last = exports[2]

====
